---- MODULE Spec2Model ----
(***************************************************************************)
(* Model of the privileged-operation execution and retry core of the       *)
(* MeshAdv-Mini installer scripts:                                          *)
(*   meshtastic_configuration_tool.py  (Tk front-end,  "tk")                *)
(*   meshtasticd_config_tool_V2.py     (GTK front-end, "gtk")               *)
(* Each subsystem has its own variables and its own specification; a        *)
(* specification leaves the variables of the other subsystems unchanged.    *)
(***************************************************************************)
EXTENDS Integers, Sequences, FiniteSets, TLC

(***************************************************************************)
(* Retry subsystem: safe_apt_command and check_and_fix_apt_locks (Tk).      *)
(***************************************************************************)
VARIABLES
    sacPc,          \* position of safe_apt_command
    attempt,        \* the loop variable of safe_apt_command (0-based)
    hist,           \* outcomes of the command, one per attempt made so far
    sacRet,         \* what safe_apt_command returned
    recoveryCalls,  \* calls of check_and_fix_apt_locks made by this call
    cfPc,           \* position of check_and_fix_apt_locks
    cfCaller,       \* who called check_and_fix_apt_locks
    cfIdx,          \* index of the lock file the current loop is at
    locksFound,     \* locks_found
    cfRet,          \* what check_and_fix_apt_locks returned
    lockState,      \* per lock file: absent, stale, apt (held), other (held)
    envSteps,       \* lock acquisitions/releases by other processes so far
    staleSeen,      \* lock files the scan of this call found with no holder
    cfActed,        \* this call ran dpkg --configure, killall or rm
    kills           \* the attempts (1-based) after whose timeout killall was run

retryVars == <<sacPc, attempt, hist, sacRet, recoveryCalls, cfPc, cfCaller,
               cfIdx, locksFound, cfRet, lockState, envSteps, staleSeen, cfActed,
               kills>>

(***************************************************************************)
(* Status subsystem: the read-only probes (both front-ends).                *)
(***************************************************************************)
VARIABLES
    stDevs,         \* device files that exist under /dev
    stReadable,     \* open(BOOT_CONFIG_FILE) succeeds
    stContent,      \* content of the boot config file
    stPi5,          \* hardware: is_pi5()
    stHat,          \* hardware: hat_info product
    stProbe,        \* the probe that ran last
    stResult,       \* what it returned
    stIn,           \* what the commands and path tests of the last probe gave
    stRaised        \* the last probe raised to its caller instead of returning

statusVars == <<stDevs, stReadable, stContent, stPi5, stHat, stProbe, stResult,
                stIn, stRaised>>

(***************************************************************************)
(* Config-edit subsystem: enable-SPI, enable-I2C, enable-GPS/UART and       *)
(* configure-HAT, one run after the other, in either front-end.             *)
(***************************************************************************)
VARIABLES
    impl,           \* the front-end that runs: "gtk" or "tk"
    isPi5,          \* hardware: is_pi5()
    bootConfig,     \* content of /boot/firmware/config.txt
    backups,        \* the backup files: timestamp suffix and content
    now,            \* the clock, in seconds (the backup suffix)
    edPc,           \* position of the running operation
    edOp,           \* the operation: spi, i2c, gps, hat
    edContent,      \* config_content
    edUpdated,      \* config_updated
    edStart,        \* the boot config when the operation started
    edWrote,        \* the operation has run tee on the boot config
    edBackup,       \* how the operation's backup copy ended: none, ok, nonzero, raise
    edTee,          \* how the operation's tee ended: none, ok, nonzero, truncated, raise
    edRead,         \* config_content as the cat of the operation left it
    edPreWrites,    \* the contents the boot config had just before each write so far
    edRuns,         \* operations started so far
    edPrev          \* the previous operation and its outcome

editVars == <<impl, isPi5, bootConfig, backups, now, edPc, edOp, edContent,
              edUpdated, edStart, edWrote, edBackup, edTee, edRead,
              edPreWrites, edRuns, edPrev>>

(***************************************************************************)
(* Operation subsystem of the GTK front-end: _run_operation_with_progress,  *)
(* the ThreadPoolExecutor of ThreadManager and the GLib main loop, for the  *)
(* time the main loop runs.                                                 *)
(***************************************************************************)
VARIABLES
    submitted,          \* number of calls of _run_operation_with_progress
    opId,               \* operation_id of each submitted operation
    opState,            \* none, queued, running, succeeded, failed
    wPc,                \* position of the operation's worker()
    work_queue,         \* the executor's queue of tasks not yet started
    active_futures,     \* ThreadManager.active_futures
    idle_queue,         \* callbacks handed to GLib.idle_add, oldest first
    active_operations,  \* MeshtasticGTK.active_operations (keys)
    delivered           \* completion callbacks run on the UI thread, per operation

orchVars == <<submitted, opId, opState, wPc, work_queue, active_futures,
              idle_queue, active_operations, delivered>>

(***************************************************************************)
(* Install subsystem: the daemon install procedure of either front-end.     *)
(***************************************************************************)
VARIABLES
    insImpl,        \* the front-end that runs: "gtk" or "tk"
    insPc,          \* position of the install procedure
    insChannel,     \* channel
    insUrl,         \* repo_url
    insListFile,    \* list_file
    insGpgFile,     \* gpg_file
    insKeyData,     \* result.stdout of curl, then gpg_output
    insFiles,       \* the files the procedure writes: path and content
    insWritten,     \* paths written by the running install
    insCmds,        \* steps the running install has carried out, in order
    insFailed,      \* the required step of the running install that failed
    insReport,      \* what the install reports: raised error / error log, or success
    insRuns         \* installs started so far

installVars == <<insImpl, insPc, insChannel, insUrl, insListFile, insGpgFile,
                 insKeyData, insFiles, insWritten, insCmds, insFailed, insReport,
                 insRuns>>

(***************************************************************************)
(* Worker threads: ThreadManager (GTK) and threading.Thread (Tk).           *)
(***************************************************************************)
VARIABLES
    poolImpl,       \* the front-end: "tk" or "gtk"
    poolCount,      \* tasks handed to a worker thread so far
    poolTask        \* per task: none, queued, running, done

poolVars == <<poolImpl, poolCount, poolTask>>

(***************************************************************************)
(* Log messages: QueueHandler, output_queue and the periodic drain.         *)
(***************************************************************************)
VARIABLES
    logImpl,        \* the front-end: "tk" or "gtk"
    emitted,        \* per worker: log messages emitted so far
    output_queue,   \* the queue.Queue the handler puts messages in
    messages,       \* the local list of get_messages (GTK)
    output,         \* the messages appended to the output area, in order
    drainPc         \* position of the drain on the UI thread: idle, get

logVars == <<logImpl, emitted, output_queue, messages, output, drainPc>>

(***************************************************************************)
(* The command runner: SystemManager.run_command (GTK).                     *)
(***************************************************************************)
VARIABLES
    runArgs,        \* the last call: its arguments and what the child process did
    runResult       \* what the last call returned or raised

runVars == <<runArgs, runResult>>

(***************************************************************************)
(* The handlers of the window: what runs on the UI thread and what on a     *)
(* worker (GTK).                                                            *)
(***************************************************************************)
VARIABLES
    uiPc,           \* idle, or running: a handler was dispatched and has not ended
    uiHandler,      \* the handler dispatched last
    uiStatus,       \* what the handler's status check returned
    uiTodo,         \* the steps the UI thread still has to run
    wkTodo,         \* the steps the worker of the submitted operation still has to run
    uiTrace         \* the steps run since the dispatch, with their thread

uiVars == <<uiPc, uiHandler, uiStatus, uiTodo, wkTodo, uiTrace>>

(***************************************************************************)
(* Config-edit operations that run at the same time on one boot config      *)
(***************************************************************************)
VARIABLES
    ccImpl,         \* the front-end: gtk or tk
    ccPi5,          \* the board is a Pi 5
    ccFile,         \* the boot config file the workers share
    ccPc,           \* per worker: idle, raspi, backup, read, write, writing, serial, done, failed
    ccOp,           \* per worker: the operation it runs
    ccRead,         \* per worker: config_content as its cat left it
    ccContent,      \* per worker: config_content after the appends
    ccClean         \* per worker: every command it ran so far exited with code 0

concVars == <<ccImpl, ccPi5, ccFile, ccPc, ccOp, ccRead, ccContent, ccClean>>

(***************************************************************************)
(* A worker waiting for the external commands of its operation              *)
(***************************************************************************)
VARIABLES
    wtImpl,         \* the front-end: gtk or tk
    wtOp,           \* the operation submitted
    wtPc,           \* idle, running, succeeded, failed
    wtTodo,         \* the commands the operation still has to run
    wtCmd,          \* the command at the head: none (not started), running, hung
    wtNonzero       \* a command of the operation has exited non-zero

waitVars == <<wtImpl, wtOp, wtPc, wtTodo, wtCmd, wtNonzero>>

(***************************************************************************)
(* The HAT config of meshtasticd: the YAML files of config.d                *)
(***************************************************************************)
VARIABLES
    hcImpl,         \* the front-end: gtk or tk
    hcConfigD,      \* the *.yaml files in config.d
    hcPc,           \* idle, remove, choose, copy, end
    hcTodo,         \* existing_configs still to remove
    hcPick          \* the config chosen to copy, 0 when none

hatVars == <<hcImpl, hcConfigD, hcPc, hcTodo, hcPick>>

vars == <<retryVars, statusVars, editVars, orchVars, installVars, poolVars, logVars,
          runVars, uiVars, concVars, waitVars, hatVars>>

\* What the actions of one subsystem leave alone
notRetry == <<statusVars, editVars, orchVars, installVars, poolVars, logVars,
      runVars, uiVars,
      concVars, waitVars, hatVars>>
notStatus == <<retryVars, editVars, orchVars, installVars, poolVars, logVars,
      runVars, uiVars,
      concVars, waitVars, hatVars>>
notEdit == <<retryVars, statusVars, orchVars, installVars, poolVars, logVars,
      runVars, uiVars,
      concVars, waitVars, hatVars>>
notOrch == <<retryVars, statusVars, editVars, installVars, poolVars, logVars,
      runVars, uiVars,
      concVars, waitVars, hatVars>>
notInstall == <<retryVars, statusVars, editVars, orchVars, poolVars, logVars,
      runVars, uiVars,
      concVars, waitVars, hatVars>>
notPool == <<retryVars, statusVars, editVars, orchVars, installVars, logVars,
      runVars, uiVars,
      concVars, waitVars, hatVars>>
notRun == <<retryVars, statusVars, editVars, orchVars, installVars, poolVars,
      logVars, uiVars,
      concVars, waitVars, hatVars>>
notUi == <<retryVars, statusVars, editVars, orchVars, installVars, poolVars,
      logVars, runVars,
      concVars, waitVars, hatVars>>
notConc == <<retryVars, statusVars, editVars, orchVars, installVars, poolVars,
      logVars, runVars, uiVars, waitVars, hatVars>>
notWait == <<retryVars, statusVars, editVars, orchVars, installVars, poolVars,
      logVars, runVars, uiVars, concVars, hatVars>>
notHat == <<retryVars, statusVars, editVars, orchVars, installVars, poolVars,
      logVars, runVars, uiVars, concVars, waitVars>>
notLog == <<retryVars, statusVars, editVars, orchVars, installVars, poolVars,
      runVars, uiVars,
      concVars, waitVars, hatVars>>

\* max_retries of safe_apt_command
max_retries == 3

\* lock_files of check_and_fix_apt_locks, in the order of the list
lock_files == <<"dpkg_lock", "dpkg_lock_frontend", "apt_archives_lock">>

\* How many times other package-manager processes take or drop a lock
MaxEnvSteps == 2

NoResult == [kind |-> "none"]

\* What one run of the command can produce: a completed process with its
\* exit code and whether stderr carries a lock signature, a timeout
\* (subprocess.TimeoutExpired) or any other exception (launch error).
Outcomes ==
    { [kind |-> "completed", rc |-> rc, lockSig |-> s] :
          rc \in {0, 1}, s \in BOOLEAN }
    \cup { [kind |-> "timeout"], [kind |-> "error"] }

OkOutcome   == [kind |-> "completed", rc |-> 0, lockSig |-> FALSE]
LockOutcome == [kind |-> "completed", rc |-> 1, lockSig |-> TRUE]

\* "Could not get lock" in result.stderr or "dpkg was interrupted" in result.stderr
HasLockSignature(o) == o.kind = "completed" /\ o.lockSig

\* if attempt > 0: check and fix locks before the retry
NeedsRecoveryMut(a) == a >= 0
NeedsRecovery(a) == a > 0

\* attempt < max_retries - 1
HasRetryLeftMut(a) == a < max_retries
HasRetryLeft(a) == a < max_retries - 1

Held(s) == s \in {"apt", "other"}

LockIds == {lock_files[i] : i \in 1..Len(lock_files)}

RetryStart(lockStates) ==
    /\ sacPc = "idle"
    /\ attempt = 0
    /\ hist = <<>>
    /\ sacRet = NoResult
    /\ recoveryCalls = 0
    /\ cfPc = "idle"
    /\ cfCaller = "none"
    /\ cfIdx = 0
    /\ locksFound = <<>>
    /\ cfRet = "none"
    /\ lockState \in lockStates
    /\ envSteps = 0
    /\ staleSeen = {}
    /\ cfActed = FALSE
    /\ kills = {}

RetryInit == RetryStart([LockIds -> {"absent", "stale", "apt", "other"}])

(***************************************************************************)
(* Other package-manager processes: they take and drop locks at any time.   *)
(* "apt" is a process killall -9 apt apt-get dpkg reaches by name, "other"  *)
(* one it does not (unattended-upgrade, packagekitd, ...).                  *)
(***************************************************************************)
EnvAcquire ==
    /\ envSteps < MaxEnvSteps
    /\ \E f \in LockIds, who \in {"apt", "other"} :
          /\ ~Held(lockState[f])
          /\ lockState' = [lockState EXCEPT ![f] = who]
    /\ envSteps' = envSteps + 1
    /\ UNCHANGED <<sacPc, attempt, hist, sacRet, recoveryCalls, cfPc, cfCaller,
                   cfIdx, locksFound, cfRet>>
    /\ UNCHANGED <<staleSeen, cfActed>>
    /\ UNCHANGED kills
    /\ UNCHANGED notRetry

\* A holder that exits leaves its lock file behind, unheld.
EnvRelease ==
    /\ envSteps < MaxEnvSteps
    /\ \E f \in LockIds :
          /\ Held(lockState[f])
          /\ lockState' = [lockState EXCEPT ![f] = "stale"]
    /\ envSteps' = envSteps + 1
    /\ UNCHANGED <<sacPc, attempt, hist, sacRet, recoveryCalls, cfPc, cfCaller,
                   cfIdx, locksFound, cfRet>>
    /\ UNCHANGED <<staleSeen, cfActed>>
    /\ UNCHANGED kills
    /\ UNCHANGED notRetry

\* sudo killall -9 apt apt-get dpkg: every process of these names dies, its
\* lock file stays.
KillAll(ls) == [f \in LockIds |-> IF ls[f] = "apt" THEN "stale" ELSE ls[f]]

(***************************************************************************)
(* check_and_fix_apt_locks                                                  *)
(***************************************************************************)
\* perform_installation / remove_meshtasticd call it directly as step 0
cf_call_direct ==
    /\ sacPc = "idle"
    /\ cfPc = "idle"
    /\ cfPc' = "audit"
    /\ cfCaller' = "direct"
    /\ cfIdx' = 0
    /\ locksFound' = <<>>
    /\ cfRet' = "none"
    /\ UNCHANGED <<sacPc, attempt, hist, sacRet, recoveryCalls, lockState, envSteps>>
    /\ staleSeen' = {}
    /\ cfActed' = FALSE
    /\ UNCHANGED kills
    /\ UNCHANGED notRetry

\* Where an exception of one of its commands takes check_and_fix_apt_locks:
\* the lsof and rm calls sit in their own try with a bare "except: pass";
\* everything else is caught by the outer "except Exception", which returns
\* False.  "raise" would be an exception that leaves the function.
RecoveryErrorMut(cmd) == "raise"
RecoveryError(cmd) == IF cmd \in {"lsof", "rm"} THEN "pass" ELSE "false"

\* cfPc and cfRet after the exception of a command outside the inner try
ErrorEnds(cmd) ==
    IF RecoveryError(cmd) = "false"
       THEN cfPc' = "done" /\ cfRet' = "false"
       ELSE cfPc' = "raised" /\ cfRet' = cfRet

\* sudo dpkg --audit; a launch error is caught by the outer except
cf_audit ==
    /\ cfPc = "audit"
    /\ \E o \in {"clean", "inconsistent", "raise"} :
          /\ CASE o = "clean" -> cfPc' = "scan" /\ cfRet' = cfRet
               [] o = "inconsistent" -> cfPc' = "configure" /\ cfRet' = cfRet
               [] OTHER -> ErrorEnds("dpkg --audit")
          /\ cfIdx' = IF o = "clean" THEN 1 ELSE cfIdx
    /\ UNCHANGED <<sacPc, attempt, hist, sacRet, recoveryCalls, cfCaller,
                   locksFound, lockState, envSteps>>
    /\ UNCHANGED <<staleSeen, cfActed>>
    /\ UNCHANGED kills
    /\ UNCHANGED notRetry

\* sudo dpkg --configure -a, input "n", timeout 60
cf_configure ==
    /\ cfPc = "configure"
    /\ \E o \in {"ok", "fail", "raise"} :
          /\ IF o = "raise"
                THEN ErrorEnds("dpkg --configure")
                ELSE cfPc' = "scan" /\ cfRet' = cfRet
          /\ cfActed' = (cfActed \/ o # "raise")
          /\ cfIdx' = IF o = "raise" THEN cfIdx ELSE 1
    /\ UNCHANGED <<sacPc, attempt, hist, sacRet, recoveryCalls, cfCaller,
                   locksFound, lockState, envSteps>>
    /\ UNCHANGED staleSeen
    /\ UNCHANGED kills
    /\ UNCHANGED notRetry

\* lsof reports a holder: returncode == 0 and output
LsofHeld(s) == Held(s)

\* for lock_file in lock_files: if it exists and lsof shows a holder,
\* locks_found.append(lock_file); an lsof that cannot be run is passed over
cf_scan ==
    /\ cfPc = "scan"
    /\ cfIdx <= Len(lock_files)
    /\ \E o \in {"ran", "raise"} :
          LET f == lock_files[cfIdx] IN
            /\ o = "raise" => lockState[f] # "absent"
            /\ IF o = "raise" /\ RecoveryError("lsof") # "pass"
                  THEN /\ cfPc' = "raised"
                       /\ UNCHANGED <<locksFound, cfIdx>>
                  ELSE /\ locksFound' = IF o = "ran" /\ lockState[f] # "absent"
                                            /\ LsofHeld(lockState[f])
                                           THEN Append(locksFound, f)
                                           ELSE locksFound
                       /\ cfIdx' = cfIdx + 1
                       /\ cfPc' = cfPc
    /\ UNCHANGED <<sacPc, attempt, hist, sacRet, recoveryCalls, cfCaller,
                   cfRet, lockState, envSteps>>
    /\ staleSeen' = IF lockState[lock_files[cfIdx]] = "stale"
                     THEN staleSeen \cup {lock_files[cfIdx]}
                     ELSE staleSeen
    /\ UNCHANGED cfActed
    /\ UNCHANGED kills
    /\ UNCHANGED notRetry

\* if locks_found: ... else fall through to return True
cf_scan_end ==
    /\ cfPc = "scan"
    /\ cfIdx > Len(lock_files)
    /\ IF locksFound # <<>>
          THEN cfPc' = "kill" /\ cfRet' = cfRet
          ELSE cfPc' = "done" /\ cfRet' = "true"
    /\ UNCHANGED <<sacPc, attempt, hist, sacRet, recoveryCalls, cfCaller, cfIdx,
                   locksFound, lockState, envSteps>>
    /\ UNCHANGED <<staleSeen, cfActed>>
    /\ UNCHANGED kills
    /\ UNCHANGED notRetry

\* killall, then time.sleep(2); a killall that cannot be run is caught by
\* the outer except
cf_kill ==
    /\ cfPc = "kill"
    /\ \E o \in {"ran", "raise"} :
          IF o = "ran"
             THEN /\ lockState' = KillAll(lockState)
                  /\ cfPc' = "wait"
                  /\ cfRet' = cfRet
                  /\ cfActed' = TRUE
             ELSE /\ ErrorEnds("killall")
                  /\ UNCHANGED <<lockState, cfActed>>
    /\ UNCHANGED <<sacPc, attempt, hist, sacRet, recoveryCalls, cfCaller, cfIdx,
                   locksFound, envSteps>>
    /\ UNCHANGED staleSeen
    /\ UNCHANGED kills
    /\ UNCHANGED notRetry

cf_wait ==
    /\ cfPc = "wait"
    /\ cfPc' = "recheck"
    /\ cfIdx' = 1
    /\ UNCHANGED <<sacPc, attempt, hist, sacRet, recoveryCalls, cfCaller,
                   locksFound, cfRet, lockState, envSteps>>
    /\ UNCHANGED <<staleSeen, cfActed>>
    /\ UNCHANGED kills
    /\ UNCHANGED notRetry

\* for lock_file in locks_found: lsof again; returncode != 0 means the rm
\* follows
cf_recheck ==
    /\ cfPc = "recheck"
    /\ cfIdx <= Len(locksFound)
    /\ \E o \in {"ran", "raise"} :
          CASE o = "raise" /\ RecoveryError("lsof") # "pass" ->
                  cfPc' = "raised" /\ cfIdx' = cfIdx
            [] o = "raise" \/ LsofHeld(lockState[locksFound[cfIdx]]) ->
                  cfPc' = "recheck" /\ cfIdx' = cfIdx + 1
            [] OTHER ->
                  cfPc' = "rm" /\ cfIdx' = cfIdx
    /\ UNCHANGED <<sacPc, attempt, hist, sacRet, recoveryCalls, cfCaller,
                   locksFound, cfRet, lockState, envSteps>>
    /\ UNCHANGED <<staleSeen, cfActed>>
    /\ UNCHANGED kills
    /\ UNCHANGED notRetry

\* sudo rm -f lock_file, check=True; a failure is swallowed by the inner except
cf_rm ==
    /\ cfPc = "rm"
    /\ \E ok \in BOOLEAN :
          /\ lockState' = IF ok THEN [lockState EXCEPT ![locksFound[cfIdx]] = "absent"]
                                ELSE lockState
          /\ IF ~ok /\ RecoveryError("rm") # "pass"
                THEN cfPc' = "raised" /\ cfIdx' = cfIdx
                ELSE cfPc' = "recheck" /\ cfIdx' = cfIdx + 1
    /\ UNCHANGED <<sacPc, attempt, hist, sacRet, recoveryCalls, cfCaller,
                   locksFound, cfRet, envSteps>>
    /\ cfActed' = TRUE
    /\ UNCHANGED staleSeen
    /\ UNCHANGED kills
    /\ UNCHANGED notRetry

cf_recheck_end ==
    /\ cfPc = "recheck"
    /\ cfIdx > Len(locksFound)
    /\ cfPc' = "done"
    /\ cfRet' = "true"
    /\ UNCHANGED <<sacPc, attempt, hist, sacRet, recoveryCalls, cfCaller, cfIdx,
                   locksFound, lockState, envSteps>>
    /\ UNCHANGED <<staleSeen, cfActed>>
    /\ UNCHANGED kills
    /\ UNCHANGED notRetry

\* the direct caller ignores the return value and goes on
cf_return_direct ==
    /\ cfPc = "done"
    /\ cfCaller = "direct"
    /\ cfPc' = "idle"
    /\ cfCaller' = "none"
    /\ cfIdx' = 0
    /\ locksFound' = <<>>
    /\ cfRet' = "none"
    /\ UNCHANGED <<sacPc, attempt, hist, sacRet, recoveryCalls, lockState, envSteps>>
    /\ staleSeen' = {}
    /\ cfActed' = FALSE
    /\ UNCHANGED kills
    /\ UNCHANGED notRetry

(***************************************************************************)
(* safe_apt_command                                                         *)
(***************************************************************************)
sac_call ==
    /\ sacPc = "idle"
    /\ cfPc = "idle"
    /\ sacPc' = "loop"
    /\ attempt' = 0
    /\ hist' = <<>>
    /\ sacRet' = NoResult
    /\ recoveryCalls' = 0
    /\ UNCHANGED <<cfPc, cfCaller, cfIdx, locksFound, cfRet, lockState, envSteps>>
    /\ UNCHANGED <<staleSeen, cfActed>>
    /\ kills' = {}
    /\ UNCHANGED notRetry

\* top of the loop body: if attempt > 0, self.check_and_fix_apt_locks()
sac_loop ==
    /\ sacPc = "loop"
    /\ IF NeedsRecovery(attempt)
          THEN /\ sacPc' = "recovering"
               /\ recoveryCalls' = recoveryCalls + 1
               /\ cfPc' = "audit"
               /\ cfCaller' = "sac"
               /\ cfIdx' = 0
               /\ locksFound' = <<>>
               /\ cfRet' = "none"
          ELSE /\ sacPc' = "run"
               /\ UNCHANGED <<recoveryCalls, cfPc, cfCaller, cfIdx, locksFound, cfRet>>
    /\ UNCHANGED <<attempt, hist, sacRet, lockState, envSteps>>
    /\ staleSeen' = {}
    /\ cfActed' = FALSE
    /\ UNCHANGED kills
    /\ UNCHANGED notRetry

\* check_and_fix_apt_locks returned; time.sleep(retry_delay) comes next
sac_recovered ==
    /\ sacPc = "recovering"
    /\ cfPc = "done"
    /\ cfCaller = "sac"
    /\ cfPc' = "idle"
    /\ cfCaller' = "none"
    /\ cfIdx' = 0
    /\ locksFound' = <<>>
    /\ cfRet' = "none"
    /\ sacPc' = "sleep"
    /\ UNCHANGED <<attempt, hist, sacRet, recoveryCalls, lockState, envSteps>>
    /\ staleSeen' = {}
    /\ cfActed' = FALSE
    /\ UNCHANGED kills
    /\ UNCHANGED notRetry

sac_sleep ==
    /\ sacPc = "sleep"
    /\ sacPc' = "run"
    /\ UNCHANGED <<attempt, hist, sacRet, recoveryCalls, cfPc, cfCaller, cfIdx,
                   locksFound, cfRet, lockState, envSteps>>
    /\ UNCHANGED <<staleSeen, cfActed>>
    /\ UNCHANGED kills
    /\ UNCHANGED notRetry

\* "continue": the next iteration, or the end of the for loop and return None
ContinueMut(a) ==
    /\ sacPc' = "loop" /\ attempt' = a /\ sacRet' = sacRet
Continue(a) ==
    IF a + 1 < max_retries
       THEN /\ sacPc' = "loop" /\ attempt' = a + 1 /\ sacRet' = sacRet
       ELSE /\ sacPc' = "returned" /\ attempt' = a /\ sacRet' = [kind |-> "None"]

Result(o, a) == [kind |-> "result", rc |-> o.rc, lockSig |-> o.lockSig, attempt |-> a + 1]

\* except subprocess.TimeoutExpired runs killall before it continues; except
\* Exception only continues
KillsBeforeRetryMut(o) == FALSE
KillsBeforeRetry(o) == o.kind = "timeout"

\* subprocess.run(cmd_args, ...) and what the loop body does with its outcome
sac_run ==
    /\ sacPc = "run"
    /\ \E o \in Outcomes :
          /\ hist' = Append(hist, o)
          /\ CASE o.kind = "completed" ->
                    IF HasLockSignature(o) /\ HasRetryLeft(attempt)
                       THEN Continue(attempt)
                       ELSE /\ sacPc' = "returned"
                            /\ sacRet' = Result(o, attempt)
                            /\ attempt' = attempt
               [] OTHER ->
                    IF ~HasRetryLeft(attempt)
                       THEN sacPc' = "raised" /\ UNCHANGED <<attempt, sacRet>>
                       ELSE IF KillsBeforeRetry(o)
                               THEN sacPc' = "killall" /\ UNCHANGED <<attempt, sacRet>>
                               ELSE Continue(attempt)
    /\ UNCHANGED <<recoveryCalls, cfPc, cfCaller, cfIdx, locksFound, cfRet,
                   lockState, envSteps>>
    /\ UNCHANGED <<staleSeen, cfActed>>
    /\ UNCHANGED kills
    /\ UNCHANGED notRetry

\* except TimeoutExpired, not the last attempt: killall, then continue; the
\* subprocess.run of killall is inside the handler, so when it cannot be
\* launched its exception leaves safe_apt_command
sac_killall ==
    /\ sacPc = "killall"
    /\ \E k \in {"ran", "raise"} :
          IF k = "ran"
             THEN /\ lockState' = KillAll(lockState)
                  /\ kills' = kills \cup {attempt + 1}
                  /\ Continue(attempt)
             ELSE /\ sacPc' = "raised"
                  /\ UNCHANGED <<lockState, kills, attempt, sacRet>>
    /\ UNCHANGED <<hist, recoveryCalls, cfPc, cfCaller, cfIdx, locksFound, cfRet,
                   envSteps>>
    /\ UNCHANGED <<staleSeen, cfActed>>
    /\ UNCHANGED notRetry

\* the caller has the result (or the exception); the call's locals are gone
sac_done ==
    /\ sacPc \in {"returned", "raised"}
    /\ sacPc' = "idle"
    /\ attempt' = 0
    /\ hist' = <<>>
    /\ sacRet' = NoResult
    /\ recoveryCalls' = 0
    /\ UNCHANGED <<cfPc, cfCaller, cfIdx, locksFound, cfRet, lockState, envSteps>>
    /\ UNCHANGED <<staleSeen, cfActed>>
    /\ kills' = {}
    /\ UNCHANGED notRetry

RetryNext ==
    \/ EnvAcquire
    \/ EnvRelease
    \/ cf_call_direct
    \/ cf_audit
    \/ cf_configure
    \/ cf_scan
    \/ cf_scan_end
    \/ cf_kill
    \/ cf_wait
    \/ cf_recheck
    \/ cf_rm
    \/ cf_recheck_end
    \/ cf_return_direct
    \/ sac_call
    \/ sac_loop
    \/ sac_recovered
    \/ sac_sleep
    \/ sac_run
    \/ sac_killall
    \/ sac_done


(***************************************************************************)
(* Boot config content.  A content is the sequence of its line texts and    *)
(* newlines: "a\nb\n" is <<"a", NL, "b", NL>>.  No two line texts are       *)
(* adjacent, so a marker (which holds no newline) is a substring of the     *)
(* content exactly when it is a substring of one line text.                 *)
(***************************************************************************)
NL == "\n"

\* The markers the code looks for that are substrings of a line text.
MarkersIn(tok) ==
    CASE tok = "dtparam=spi=on"      -> {"dtparam=spi=on"}
      [] tok = "#dtparam=spi=on"     -> {"dtparam=spi=on"}
      [] tok = "dtoverlay=spi0-0cs"  -> {"dtoverlay=spi0-0cs"}
      [] tok = "dtparam=i2c_arm=on"  -> {"dtparam=i2c_arm=on"}
      [] tok = "enable_uart=1"       -> {"enable_uart=1"}
      [] tok = "dtoverlay=uart0"     -> {"dtoverlay=uart0"}
      [] tok = "dtoverlay=uart0-pi5" -> {"dtoverlay=uart0"}
      [] tok = "# MeshAdv Mini Configuration" -> {"MeshAdv Mini Configuration"}
      [] tok = "gpio=4=op,dh"        -> {"gpio=4=op,dh"}
      [] tok = "dtoverlay=pps-gpio,gpiopin=17" -> {"pps-gpio,gpiopin=17"}
      [] OTHER -> {}

\* marker in config_content
In(m, c) == \E i \in 1..Len(c) : m \in MarkersIn(c[i])

\* config_content.count(marker)
Count(m, c) == Cardinality({i \in 1..Len(c) : m \in MarkersIn(c[i])})

\* Line texts the initial boot config is drawn from
InitTexts ==
    {"dtparam=spi=on", "#dtparam=spi=on", "dtoverlay=spi0-0cs", "dtparam=i2c_arm=on",
     "enable_uart=1", "dtoverlay=uart0", "# MeshAdv Mini Configuration", "arm_64bit=1"}

\* Longest initial boot config, in line texts and newlines
MaxLen == 3

WellFormed(c) == \A i \in 1..(Len(c) - 1) : c[i] = NL \/ c[i + 1] = NL

SeqsUpTo(S, n) == UNION {[1..k -> S] : k \in 0..n}

InitContents == {c \in SeqsUpTo(InitTexts \cup {NL}, MaxLen) : WellFormed(c)}

(***************************************************************************)
(* StatusChecker (GTK) / MeshtasticGUI.check_*_status (Tk): same logic.     *)
(***************************************************************************)
\* os.path.exists("/dev/spidev0.0") or os.path.exists("/dev/spidev0.1")
spi_devices_exist_mut(devs) == "spidev0.0" \in devs
spi_devices_exist(devs) == "spidev0.0" \in devs \/ "spidev0.1" \in devs

check_spi_status(devs, readable, c) ==
    LET devices_exist == spi_devices_exist(devs)
        config_enabled ==
            IF readable
               THEN In("dtparam=spi=on", c) /\ In("dtoverlay=spi0-0cs", c)
               ELSE FALSE
    IN devices_exist /\ config_enabled

I2cDevs == {"i2c-0", "i2c-1"}

\* any(os.path.exists(f"/dev/i2c-{i}") for i in range(0, 10))
check_i2c_status(devs, readable, c) ==
    LET devices_exist == devs \cap I2cDevs # {}
        config_enabled == IF readable THEN In("dtparam=i2c_arm=on", c) ELSE FALSE
    IN devices_exist /\ config_enabled

check_gps_uart_status(readable, c, pi5) ==
    IF ~readable THEN FALSE
    ELSE IF pi5 THEN In("enable_uart=1", c) /\ In("dtoverlay=uart0", c)
    ELSE In("enable_uart=1", c)

check_hat_specific_status(readable, c, hat) ==
    IF hat # "MeshAdv Mini" THEN FALSE
    ELSE IF ~readable THEN FALSE
    ELSE In("gpio=4=op,dh", c) /\ In("pps-gpio,gpiopin=17", c)

\* The probes that run commands.  run_command gives "ok" (exit code 0),
\* "nonzero", or "raise" (MeshtasticError on a timeout or a launch error).
CmdOutcomes == {"ok", "nonzero", "raise"}

\* o1, o2: the outcomes of the probe's first and second command; out: the
\* output holds the text looked for; exists: the path looked for exists
NoIn == [o1 |-> "ok", o2 |-> "ok", out |-> FALSE, exists |-> FALSE]

Ret(b) == [ret |-> b, raised |-> FALSE]
Raise == [ret |-> FALSE, raised |-> TRUE]

\* SystemManager.check_package_installed: dpkg -l, "ii" in stdout
check_package_installed(o, ii) ==
    IF o = "raise" THEN Ret(FALSE) ELSE Ret(o = "ok" /\ ii)

\* SystemManager.check_service_enabled: systemctl is-enabled
check_service_enabled_mut(o, enabled) ==
    IF o = "raise" THEN Raise ELSE Ret(o = "ok" /\ enabled)
check_service_enabled(o, enabled) ==
    IF o = "raise" THEN Ret(FALSE) ELSE Ret(o = "ok" /\ enabled)

\* SystemManager.check_service_active: systemctl is-active
check_service_active(o, active) ==
    IF o = "raise" THEN Ret(FALSE) ELSE Ret(o = "ok" /\ active)

\* dpkg, then the binary paths, then which (its own try/except: pass)
check_meshtasticd_status(o1, ii, binary_exists, o2) ==
    LET dpkg_installed == check_package_installed(o1, ii)
        which_found == IF o2 = "raise" THEN FALSE ELSE o2 = "ok"
    IN IF dpkg_installed.raised THEN Ret(FALSE)
       ELSE Ret(dpkg_installed.ret \/ binary_exists \/ which_found)

\* meshtastic --version; when that raises, "meshtastic" in pipx list
check_python_cli_status(o1, o2, listed) ==
    IF o1 # "raise" THEN Ret(o1 = "ok")
    ELSE IF o2 # "raise" THEN Ret(listed)
    ELSE Ret(FALSE)

\* avahi-daemon installed and /etc/avahi/services/meshtastic.service exists
check_avahi_status(o1, ii, exists) ==
    LET avahi_installed == check_package_installed(o1, ii)
    IN IF avahi_installed.raised THEN Ret(FALSE)
       ELSE IF ~avahi_installed.ret THEN Ret(FALSE)
       ELSE Ret(exists)

\* config.d exists and globbing it (o: "ok" or "raise") finds a *.yaml
check_hat_config_status(exists, o, yaml) ==
    IF ~exists THEN Ret(FALSE)
    ELSE IF o = "raise" THEN Ret(FALSE)
    ELSE Ret(yaml)

check_meshtasticd_boot_status(o, enabled) == check_service_enabled(o, enabled)

check_meshtasticd_service_status(o, active) == check_service_active(o, active)

\* The output of a command holds the text only when the command ran
Sensible(o, out) == out => o # "raise"

\* The device file of the serial port; no status check looks at it
UartDevs == {"serial0"}

AllDevs == {"spidev0.0", "spidev0.1"} \cup I2cDevs \cup UartDevs
Hats == {"none", "MeshAdv Mini", "other"}

StatusInit ==
    /\ stContent \in InitContents
    /\ stDevs \in SUBSET AllDevs
    /\ stReadable \in BOOLEAN
    /\ stPi5 \in BOOLEAN
    /\ stHat \in Hats
    /\ stProbe = "none"
    /\ stResult = FALSE
    /\ stIn = NoIn
    /\ stRaised = FALSE

st_check_spi ==
    /\ stProbe' = "spi"
    /\ stResult' = check_spi_status(stDevs, stReadable, stContent)
    /\ UNCHANGED <<stDevs, stReadable, stContent, stPi5, stHat>>
    /\ stIn' = NoIn
    /\ stRaised' = FALSE
    /\ UNCHANGED notStatus

st_check_i2c ==
    /\ stProbe' = "i2c"
    /\ stResult' = check_i2c_status(stDevs, stReadable, stContent)
    /\ UNCHANGED <<stDevs, stReadable, stContent, stPi5, stHat>>
    /\ stIn' = NoIn
    /\ stRaised' = FALSE
    /\ UNCHANGED notStatus

st_check_gps_uart ==
    /\ stProbe' = "gps"
    /\ stResult' = check_gps_uart_status(stReadable, stContent, stPi5)
    /\ UNCHANGED <<stDevs, stReadable, stContent, stPi5, stHat>>
    /\ stIn' = NoIn
    /\ stRaised' = FALSE
    /\ UNCHANGED notStatus

st_check_hat_specific ==
    /\ stProbe' = "hat"
    /\ stResult' = check_hat_specific_status(stReadable, stContent, stHat)
    /\ UNCHANGED <<stDevs, stReadable, stContent, stPi5, stHat>>
    /\ stIn' = NoIn
    /\ stRaised' = FALSE
    /\ UNCHANGED notStatus

st_check_meshtasticd ==
    /\ \E o1 \in CmdOutcomes, ii \in BOOLEAN, bin \in BOOLEAN, o2 \in CmdOutcomes :
          /\ ii => o1 = "ok"
          /\ LET r == check_meshtasticd_status(o1, ii, bin, o2) IN
                /\ stResult' = r.ret
                /\ stRaised' = r.raised
          /\ stIn' = [o1 |-> o1, o2 |-> o2, out |-> ii, exists |-> bin]
    /\ stProbe' = "meshtasticd"
    /\ UNCHANGED <<stDevs, stReadable, stContent, stPi5, stHat>>
    /\ UNCHANGED notStatus

st_check_python_cli ==
    /\ \E o1 \in CmdOutcomes, o2 \in CmdOutcomes, listed \in BOOLEAN :
          /\ Sensible(o2, listed)
          /\ o1 # "raise" => (o2 = "ok" /\ ~listed)
          /\ LET r == check_python_cli_status(o1, o2, listed) IN
                /\ stResult' = r.ret
                /\ stRaised' = r.raised
          /\ stIn' = [o1 |-> o1, o2 |-> o2, out |-> listed, exists |-> FALSE]
    /\ stProbe' = "python_cli"
    /\ UNCHANGED <<stDevs, stReadable, stContent, stPi5, stHat>>
    /\ UNCHANGED notStatus

st_check_avahi ==
    /\ \E o1 \in CmdOutcomes, ii \in BOOLEAN, exists \in BOOLEAN :
          /\ ii => o1 = "ok"
          /\ LET r == check_avahi_status(o1, ii, exists) IN
                /\ stResult' = r.ret
                /\ stRaised' = r.raised
          /\ stIn' = [o1 |-> o1, o2 |-> "ok", out |-> ii, exists |-> exists]
    /\ stProbe' = "avahi"
    /\ UNCHANGED <<stDevs, stReadable, stContent, stPi5, stHat>>
    /\ UNCHANGED notStatus

st_check_hat_config ==
    /\ \E exists \in BOOLEAN, o \in {"ok", "raise"}, yaml \in BOOLEAN :
          /\ Sensible(o, yaml)
          /\ ~exists => (o = "ok" /\ ~yaml)
          /\ LET r == check_hat_config_status(exists, o, yaml) IN
                /\ stResult' = r.ret
                /\ stRaised' = r.raised
          /\ stIn' = [o1 |-> o, o2 |-> "ok", out |-> yaml, exists |-> exists]
    /\ stProbe' = "hat_config"
    /\ UNCHANGED <<stDevs, stReadable, stContent, stPi5, stHat>>
    /\ UNCHANGED notStatus

st_check_meshtasticd_boot ==
    /\ \E o \in CmdOutcomes, enabled \in BOOLEAN :
          /\ enabled => o = "ok"
          /\ LET r == check_meshtasticd_boot_status(o, enabled) IN
                /\ stResult' = r.ret
                /\ stRaised' = r.raised
          /\ stIn' = [o1 |-> o, o2 |-> "ok", out |-> enabled, exists |-> FALSE]
    /\ stProbe' = "boot"
    /\ UNCHANGED <<stDevs, stReadable, stContent, stPi5, stHat>>
    /\ UNCHANGED notStatus

st_check_meshtasticd_service ==
    /\ \E o \in CmdOutcomes, active \in BOOLEAN :
          /\ active => o = "ok"
          /\ LET r == check_meshtasticd_service_status(o, active) IN
                /\ stResult' = r.ret
                /\ stRaised' = r.raised
          /\ stIn' = [o1 |-> o, o2 |-> "ok", out |-> active, exists |-> FALSE]
    /\ stProbe' = "service"
    /\ UNCHANGED <<stDevs, stReadable, stContent, stPi5, stHat>>
    /\ UNCHANGED notStatus

StatusNext ==
    \/ st_check_spi
    \/ st_check_i2c
    \/ st_check_gps_uart
    \/ st_check_hat_specific

\* Every boolean probe of StatusChecker, on a machine whose boot config holds
\* at most one line
ProbeInit ==
    /\ stContent \in {c \in InitContents : Len(c) <= 1}
    /\ stDevs \in {{}, AllDevs}
    /\ stReadable \in BOOLEAN
    /\ stPi5 \in BOOLEAN
    /\ stHat \in Hats
    /\ stProbe = "none"
    /\ stResult = FALSE
    /\ stIn = NoIn
    /\ stRaised = FALSE

ProbeNext ==
    \/ st_check_spi
    \/ st_check_i2c
    \/ st_check_gps_uart
    \/ st_check_hat_specific
    \/ st_check_meshtasticd
    \/ st_check_python_cli
    \/ st_check_avahi
    \/ st_check_hat_config
    \/ st_check_meshtasticd_boot
    \/ st_check_meshtasticd_service

(***************************************************************************)
(* The config-edit operations                                               *)
(***************************************************************************)
\* Operations run one after the other
MaxRuns == 2

\* Last second of the clock
MaxClock == 1

EditOps == {"spi", "i2c", "gps", "hat"}

\* The markers an operation tests before it appends
Directives(op, pi5) ==
    CASE op = "spi" -> {"dtparam=spi=on", "dtoverlay=spi0-0cs"}
      [] op = "i2c" -> {"dtparam=i2c_arm=on"}
      [] op = "gps" -> IF pi5 THEN {"enable_uart=1", "dtoverlay=uart0"}
                              ELSE {"enable_uart=1"}
      [] OTHER      -> {"MeshAdv Mini Configuration"}

\* _enable_spi / handle_enable_spi: what config_content becomes
enable_spi_editMut(c) ==
    LET add1 == ~In("dtparam=spi=on", c)
        c1 == IF add1
                 THEN c \o <<NL, "# SPI Configuration", NL, "dtparam=spi=on", NL>>
                 ELSE c
        add2 == ~In("dtoverlay=spi0-0cs", c1)
        c2 == IF add2
                 THEN c1 \o <<NL, "# SPI Configuration", NL, "dtoverlay=spi0-0cs", NL>>
                 ELSE c1
    IN [content |-> c2, updated |-> add1 \/ add2]

enable_spi_edit(c) ==
    LET add1 == ~In("dtparam=spi=on", c)
        c1 == IF add1
                 THEN c \o <<NL, "# SPI Configuration", NL, "dtparam=spi=on", NL>>
                 ELSE c
        add2 == ~In("dtoverlay=spi0-0cs", c1)
        c2 == IF add2
                 THEN (IF ~add1 THEN c1 \o <<NL, "# SPI Configuration", NL>> ELSE c1)
                      \o <<"dtoverlay=spi0-0cs", NL>>
                 ELSE c1
    IN [content |-> c2, updated |-> add1 \/ add2]

\* _enable_i2c / handle_enable_i2c
enable_i2c_edit(c) ==
    IF ~In("dtparam=i2c_arm=on", c)
       THEN [content |-> c \o <<NL, "# I2C Configuration", NL, "dtparam=i2c_arm=on", NL>>,
             updated |-> TRUE]
       ELSE [content |-> c, updated |-> FALSE]

\* _enable_gps_uart / handle_enable_gps_uart
enable_gps_uart_edit(c, pi5) ==
    LET add1 == ~In("enable_uart=1", c)
        c1 == IF add1
                 THEN c \o <<NL, "# GPS/UART Configuration", NL, "enable_uart=1", NL>>
                 ELSE c
        add2 == pi5 /\ ~In("dtoverlay=uart0", c1)
        c2 == IF add2
                 THEN (IF ~add1 THEN c1 \o <<NL, "# GPS/UART Configuration", NL>> ELSE c1)
                      \o <<"dtoverlay=uart0", NL>>
                 ELSE c1
    IN [content |-> c2, updated |-> add1 \/ add2]

meshadv_config ==
    <<NL, "# MeshAdv Mini Configuration", NL,
      "# GPIO 4 configuration - turn on at boot", NL,
      "gpio=4=op,dh", NL,
      NL,
      "# PPS configuration for GPS on GPIO 17", NL,
      "dtoverlay=pps-gpio,gpiopin=17", NL>>

\* _configure_meshadv_mini / configure_meshadv_mini
configure_meshadv_mini_edit(c) ==
    IF ~In("MeshAdv Mini Configuration", c)
       THEN [content |-> c \o meshadv_config, updated |-> TRUE]
       ELSE [content |-> c, updated |-> FALSE]

EditOf(op, c, pi5) ==
    CASE op = "spi" -> enable_spi_edit(c)
      [] op = "i2c" -> enable_i2c_edit(c)
      [] op = "gps" -> enable_gps_uart_edit(c, pi5)
      [] OTHER      -> configure_meshadv_mini_edit(c)

\* subprocess.run(..., check=True) in the Tk front-end raises on a non-zero
\* exit; SystemManager.run_command of the GTK front-end returns the result
\* and no config-edit operation looks at its returncode.
ChecksExit(i) == i = "tk"

\* raspi-config nonint do_spi 0 / do_i2c 0 sets the interface's dtparam in
\* the boot config when it is not there.
RaspiDirective(op) == IF op = "spi" THEN "dtparam=spi=on" ELSE "dtparam=i2c_arm=on"

RaspiEdit(c, m) ==
    IF In(m, c) THEN c
    ELSE c \o (IF c # <<>> /\ c[Len(c)] # NL THEN <<NL>> ELSE <<>>) \o <<m, NL>>

\* The handler's test before it starts the operation
AlreadyEnabled(op, devs, readable, c, pi5) ==
    CASE op = "spi" -> check_spi_status(devs, readable, c)
      [] op = "i2c" -> check_i2c_status(devs, readable, c)
      [] op = "gps" -> check_gps_uart_status(readable, c, pi5)
      [] OTHER      -> FALSE

NoPrev == [op |-> "none", ok |-> FALSE]

\* Longest boot config (in tokens) the first operation starts from
MaxEditLen == 2

EditInitContents == {c \in InitContents : Len(c) <= MaxEditLen}

EditStart(impls, pi5s, contents) ==
    /\ bootConfig \in contents
    /\ impl \in impls
    /\ isPi5 \in pi5s
    /\ backups = {}
    /\ now = 0
    /\ edPc = "idle"
    /\ edOp = "none"
    /\ edContent = <<>>
    /\ edUpdated = FALSE
    /\ edStart = <<>>
    /\ edWrote = FALSE
    /\ edBackup = "none"
    /\ edTee = "none"
    /\ edRead = <<>>
    /\ edPreWrites = {}
    /\ edRuns = 0
    /\ edPrev = NoPrev

EditInit == EditStart({"gtk", "tk"}, BOOLEAN, EditInitContents)

\* handle_enable_spi, handle_enable_i2c, handle_enable_gps_uart,
\* handle_hat_specific: the status test, then the operation starts
ed_start ==
    /\ edPc = "idle"
    /\ edRuns < MaxRuns
    /\ \E op \in EditOps, devs \in SUBSET AllDevs, readable \in BOOLEAN :
          /\ ~AlreadyEnabled(op, devs, readable, bootConfig, isPi5)
          /\ edOp' = op
          /\ edPc' = IF op \in {"spi", "i2c"} THEN "raspi" ELSE "backup"
    /\ edStart' = bootConfig
    /\ edContent' = <<>>
    /\ edUpdated' = FALSE
    /\ edWrote' = FALSE
    /\ edRuns' = edRuns + 1
    /\ UNCHANGED <<impl, isPi5, bootConfig, backups, now, edPrev>>
    /\ edBackup' = "none"
    /\ edTee' = "none"
    /\ edRead' = <<>>
    /\ UNCHANGED edPreWrites
    /\ UNCHANGED notEdit

\* sudo raspi-config nonint do_spi 0 / do_i2c 0; its exit code is not looked at
ed_raspi ==
    /\ edPc = "raspi"
    /\ \E o \in {"ok_edit", "ok", "nonzero", "raise"} :
          /\ bootConfig' = IF o = "ok_edit"
                              THEN RaspiEdit(bootConfig, RaspiDirective(edOp))
                              ELSE bootConfig
          /\ edPc' = IF o = "raise" THEN "failed" ELSE "backup"
    /\ UNCHANGED <<impl, isPi5, backups, now, edOp, edContent, edUpdated, edStart,
                   edWrote, edRuns, edPrev>>
    /\ UNCHANGED edBackup
    /\ UNCHANGED edTee
    /\ UNCHANGED edRead
    /\ UNCHANGED edPreWrites
    /\ UNCHANGED notEdit

\* SystemManager.backup_file / sudo cp config_file backup_file, the suffix
\* being the second the clock shows (t), which never runs backwards
BackupGoesOn(i, o) == o = "ok" \/ (o = "nonzero" /\ ~ChecksExit(i))

ed_backup ==
    /\ edPc = "backup"
    /\ \E o \in {"ok", "nonzero", "raise"}, t \in now..MaxClock :
          /\ now' = t
          /\ edBackup' = o
          /\ backups' = IF o = "ok"
                           THEN {b \in backups : b.ts # t}
                                \cup {[ts |-> t, content |-> bootConfig]}
                           ELSE backups
          /\ edPc' = IF BackupGoesOn(impl, o) THEN "read" ELSE "failed"
    /\ UNCHANGED <<impl, isPi5, bootConfig, edOp, edContent, edUpdated,
                   edStart, edWrote, edRuns, edPrev>>
    /\ UNCHANGED edTee
    /\ UNCHANGED edRead
    /\ UNCHANGED edPreWrites
    /\ UNCHANGED notEdit

\* What config_content is after the cat: the file, or the empty stdout of a
\* cat that exited non-zero and was not checked
ReadContent(i, o, c) == IF o = "ok" THEN c ELSE <<>>

ReadGoesOn(i, o) == o = "ok" \/ (o = "nonzero" /\ ~ChecksExit(i))

AfterEdit(op) == IF op = "gps" THEN "serial" ELSE "done"

\* sudo cat config_file, then the membership tests and the appends
ed_read ==
    /\ edPc = "read"
    /\ \E o \in {"ok", "nonzero", "raise"} :
          IF ReadGoesOn(impl, o)
             THEN LET r == EditOf(edOp, ReadContent(impl, o, bootConfig), isPi5) IN
                    /\ edRead' = ReadContent(impl, o, bootConfig)
                    /\ edContent' = r.content
                    /\ edUpdated' = r.updated
                    /\ edPc' = IF r.updated THEN "write" ELSE AfterEdit(edOp)
             ELSE /\ edPc' = "failed"
                  /\ UNCHANGED <<edContent, edUpdated, edRead>>
    /\ UNCHANGED <<impl, isPi5, bootConfig, backups, now, edOp, edStart, edWrote,
                   edRuns, edPrev>>
    /\ UNCHANGED edBackup
    /\ UNCHANGED edTee
    /\ UNCHANGED edPreWrites
    /\ UNCHANGED notEdit

WriteGoesOn(i, o) == o = "ok" \/ (o \in {"nonzero", "truncated"} /\ ~ChecksExit(i))

\* sudo tee config_file with config_content as input.  tee truncates the
\* file when it opens it: a failed tee leaves the file as it was (it could
\* not open it) or empty (it could not write).
ed_write ==
    /\ edPc = "write"
    /\ \E o \in {"ok", "nonzero", "truncated", "raise"} :
          /\ bootConfig' = CASE o = "ok" -> edContent
                             [] o = "truncated" -> <<>>
                             [] OTHER -> bootConfig
          /\ edPc' = IF WriteGoesOn(impl, o) THEN AfterEdit(edOp) ELSE "failed"
          /\ edTee' = o
          /\ edPreWrites' = IF o \in {"ok", "truncated"}
                               THEN edPreWrites \cup {bootConfig}
                               ELSE edPreWrites
    /\ edWrote' = TRUE
    /\ UNCHANGED <<impl, isPi5, backups, now, edOp, edContent, edUpdated, edStart,
                   edRuns, edPrev, edRead>>
    /\ UNCHANGED edBackup
    /\ UNCHANGED notEdit

\* sudo raspi-config nonint do_serial_cons 1: the result is only logged
ed_serial ==
    /\ edPc = "serial"
    /\ \E o \in {"ok", "nonzero", "raise"} :
          edPc' = IF o = "raise" THEN "failed" ELSE "done"
    /\ UNCHANGED <<impl, isPi5, bootConfig, backups, now, edOp, edContent,
                   edUpdated, edStart, edWrote, edRuns, edPrev>>
    /\ UNCHANGED edBackup
    /\ UNCHANGED edTee
    /\ UNCHANGED edRead
    /\ UNCHANGED edPreWrites
    /\ UNCHANGED notEdit

\* the operation has returned (done) or raised (failed)
ed_finish ==
    /\ edPc \in {"done", "failed"}
    /\ edPc' = "idle"
    /\ edPrev' = [op |-> edOp, ok |-> edPc = "done"]
    /\ edOp' = "none"
    /\ edContent' = <<>>
    /\ edUpdated' = FALSE
    /\ edStart' = <<>>
    /\ edWrote' = FALSE
    /\ UNCHANGED <<impl, isPi5, bootConfig, backups, now, edRuns>>
    /\ edBackup' = "none"
    /\ edTee' = "none"
    /\ edRead' = <<>>
    /\ UNCHANGED edPreWrites
    /\ UNCHANGED notEdit

EditNext ==
    \/ ed_start
    \/ ed_raspi
    \/ ed_backup
    \/ ed_read
    \/ ed_write
    \/ ed_serial
    \/ ed_finish

(***************************************************************************)
(* Operations, the worker pool and the main loop                            *)
(***************************************************************************)
\* Calls of _run_operation_with_progress
MaxOps == 2

max_workers == 4

Ops == 1..MaxOps

OpIds == {"enable_spi", "configure_hat"}

\* Workers that execute a task
Busy == {i \in Ops : wPc[i] \in {"show", "func", "hide", "notify"}}

\* Future.done()
FutureDone(i) == wPc[i] = "exit"

\* The spinner dialog is modal: while one is shown the window takes no input
WindowTakesInput == active_operations = {}

\* operation_func() returns a result or raises
FuncOutcomeMut(ok) == IF ok THEN "succeeded" ELSE "queued"
FuncOutcome(ok) == IF ok THEN "succeeded" ELSE "failed"

\* The completion callback worker() hands to GLib.idle_add
CompletionMut(st) == "success"
Completion(st) == IF st = "succeeded" THEN "success" ELSE "error"

\* _show_progress_spinner
show_progress_spinner(active, id) == IF id \in active THEN active ELSE active \cup {id}

\* _hide_progress_spinner
hide_progress_spinner(active, id) == IF id \in active THEN active \ {id} ELSE active

OrchInit ==
    /\ submitted = 0
    /\ opId = [i \in Ops |-> "none"]
    /\ opState = [i \in Ops |-> "none"]
    /\ wPc = [i \in Ops |-> "none"]
    /\ work_queue = <<>>
    /\ active_futures = {}
    /\ idle_queue = <<>>
    /\ active_operations = {}
    /\ delivered = [i \in Ops |-> <<>>]

\* A handler calls _run_operation_with_progress, which always hands worker
\* to ThreadManager.submit_task
ui_submit ==
    /\ submitted < MaxOps
    /\ WindowTakesInput
    /\ \E id \in OpIds :
          LET i == submitted + 1 IN
            /\ submitted' = i
            /\ opId' = [opId EXCEPT ![i] = id]
            /\ opState' = [opState EXCEPT ![i] = "queued"]
            /\ wPc' = [wPc EXCEPT ![i] = "queued"]
            /\ work_queue' = Append(work_queue, i)
            /\ active_futures' = {f \in active_futures \cup {i} : ~FutureDone(f)}
    /\ UNCHANGED <<idle_queue, active_operations, delivered>>
    /\ UNCHANGED notOrch

\* A pool thread takes the oldest task: worker() starts
w_start ==
    /\ work_queue # <<>>
    /\ Cardinality(Busy) < max_workers
    /\ LET i == Head(work_queue) IN
         /\ opState' = [opState EXCEPT ![i] = "running"]
         /\ wPc' = [wPc EXCEPT ![i] = "show"]
    /\ work_queue' = Tail(work_queue)
    /\ UNCHANGED <<submitted, opId, active_futures, idle_queue, active_operations,
                   delivered>>
    /\ UNCHANGED notOrch

\* GLib.idle_add(self._show_progress_spinner, operation_id, progress_message)
w_show ==
    /\ \E i \in Ops :
          /\ wPc[i] = "show"
          /\ idle_queue' = Append(idle_queue, [fn |-> "show", op |-> i])
          /\ wPc' = [wPc EXCEPT ![i] = "func"]
    /\ UNCHANGED <<submitted, opId, opState, work_queue, active_futures,
                   active_operations, delivered>>
    /\ UNCHANGED notOrch

\* result = operation_func()
w_func ==
    /\ \E i \in Ops, ok \in BOOLEAN :
          /\ wPc[i] = "func"
          /\ opState' = [opState EXCEPT ![i] = FuncOutcome(ok)]
          /\ wPc' = [wPc EXCEPT ![i] = "hide"]
    /\ UNCHANGED <<submitted, opId, work_queue, active_futures, idle_queue,
                   active_operations, delivered>>
    /\ UNCHANGED notOrch

\* GLib.idle_add(self._hide_progress_spinner, operation_id), in the try or in
\* the except branch
w_hide ==
    /\ \E i \in Ops :
          /\ wPc[i] = "hide"
          /\ idle_queue' = Append(idle_queue, [fn |-> "hide", op |-> i])
          /\ wPc' = [wPc EXCEPT ![i] = "notify"]
    /\ UNCHANGED <<submitted, opId, opState, work_queue, active_futures,
                   active_operations, delivered>>
    /\ UNCHANGED notOrch

\* GLib.idle_add(success_callback, result), or GLib.idle_add(error_callback, e)
\* / GLib.idle_add(self._show_error_dialog, ...) and logging.error; worker()
\* returns
w_notify ==
    /\ \E i \in Ops :
          /\ wPc[i] = "notify"
          /\ idle_queue' = Append(idle_queue, [fn |-> Completion(opState[i]), op |-> i])
          /\ wPc' = [wPc EXCEPT ![i] = "exit"]
    /\ UNCHANGED <<submitted, opId, opState, work_queue, active_futures,
                   active_operations, delivered>>
    /\ UNCHANGED notOrch

\* The main loop runs the oldest idle callback, once
ui_idle ==
    /\ idle_queue # <<>>
    /\ LET cb == Head(idle_queue) IN
         /\ active_operations' =
               CASE cb.fn = "show" -> show_progress_spinner(active_operations, opId[cb.op])
                 [] cb.fn = "hide" -> hide_progress_spinner(active_operations, opId[cb.op])
                 [] OTHER -> active_operations
         /\ delivered' = IF cb.fn \in {"success", "error"}
                            THEN [delivered EXCEPT ![cb.op] = Append(@, cb.fn)]
                            ELSE delivered
    /\ idle_queue' = Tail(idle_queue)
    /\ UNCHANGED <<submitted, opId, opState, wPc, work_queue, active_futures>>
    /\ UNCHANGED notOrch

OrchNext ==
    \/ ui_submit
    \/ w_start
    \/ w_show
    \/ w_func
    \/ w_hide
    \/ w_notify
    \/ ui_idle

(***************************************************************************)
(* The daemon install procedure                                             *)
(***************************************************************************)
\* Installs run one after the other
MaxInstalls == 2

\* Strings are sequences of pieces, cut where the f-strings interpolate and
\* at the slashes of the repository path
REPO_DIR == <<"/etc/apt/sources.list.d">>
GPG_DIR == <<"/etc/apt/trusted.gpg.d">>
OS_VERSION == <<"Raspbian_12">>
REPO_PREFIX == <<"network:Meshtastic">>

\* The channels of the selection dialog
Channels == {"beta", "alpha", "daily"}

repo_url(c) ==
    <<"http://download.opensuse.org/repositories", "/", "network:", "/",
      "Meshtastic:", "/", c, "/">> \o OS_VERSION \o <<"/">>

list_file(c) == REPO_DIR \o <<"/">> \o REPO_PREFIX \o <<":", c, ".list">>

gpg_file_mut(c) == GPG_DIR \o <<"/", "network_Meshtastic_", "beta", ".gpg">>
gpg_file(c) == GPG_DIR \o <<"/", "network_Meshtastic_", c, ".gpg">>

repo_content(url) == <<"deb ">> \o url \o <<" /", NL>>

key_url(url) == url \o <<"Release.key">>

temp_gpg_key == <<"/tmp/temp_gpg_key">>

\* What curl prints for a key URL: the armored key served there
Served(u) == <<"-----BEGIN PGP PUBLIC KEY BLOCK-----">> \o u

\* gpg --dearmor
Dearmor(k) == Tail(k)

\* s has sub as a substring
Contains(s, sub) ==
    \E i \in 0..(Len(s) - Len(sub)) : SubSeq(s, i + 1, i + Len(sub)) = sub

WriteFile(fs, p, x) == {f \in fs : f.path # p} \cup {[path |-> p, content |-> x]}

RemoveFile(fs, p) == {f \in fs : f.path # p}

HasFile(fs, p) == \E f \in fs : f.path = p

FileContent(fs, p) == (CHOOSE f \in fs : f.path = p).content

\* Steps whose failure ends the install
RequiredSteps ==
    {"tee_list", "curl", "gpg", "write_temp_key", "mv_key", "tee_key",
     "apt_install", "apt_install_interactive"}

NoReport == [kind |-> "none", detail |-> ""]

\* Does the procedure go on after outcome o of a step?  chmod, apt update and
\* dpkg --configure -a are run without a test of the exit code; an exception
\* (timeout, launch error) always reaches the outer except.
StepOkMut(step, o) == o # "raise"
StepOk(step, o) ==
    IF step \in {"chmod_key", "apt_update", "dpkg_configure"}
       THEN o # "raise"
       ELSE o = "ok"

\* The text of the InstallationError raised (GTK) or of the error line
\* logged (Tk)
Detail(step, o) ==
    CASE o = "raise" -> "exception text"
      [] step = "tee_list" -> "Failed to create repository file"
      [] step = "curl" -> "Failed to download GPG key"
      [] step = "gpg" -> "GPG key processing failed"
      [] step \in {"write_temp_key", "mv_key", "tee_key"} -> "Failed to install GPG key"
      [] OTHER -> "Installation failed, stderr"

\* One step with outcome o: it is recorded, and the procedure goes on to
\* next or ends with an error report
Step(step, o, next) ==
    /\ insCmds' = Append(insCmds, step)
    /\ insFailed' = IF step \in RequiredSteps /\ o # "ok" /\ insFailed = "none"
                       THEN step ELSE insFailed
    /\ insPc' = IF StepOk(step, o) THEN next ELSE "failed"
    /\ insReport' =
          CASE ~StepOk(step, o) -> [kind |-> "error", detail |-> Detail(step, o)]
            [] StepOk(step, o) /\ next = "done" ->
                  [kind |-> "success", detail |-> "installed successfully"]
            [] OTHER -> insReport

InstallStart(impls) ==
    /\ insImpl \in impls
    /\ insPc = "idle"
    /\ insChannel = "none"
    /\ insUrl = <<>>
    /\ insListFile = <<>>
    /\ insGpgFile = <<>>
    /\ insKeyData = <<>>
    /\ insFiles = {}
    /\ insWritten = {}
    /\ insCmds = <<>>
    /\ insFailed = "none"
    /\ insReport = NoReport
    /\ insRuns = 0

InstallInit == InstallStart({"gtk", "tk"})

\* The channel dialog returns a channel; the procedure builds its names
ins_start ==
    /\ insPc = "idle"
    /\ insRuns < MaxInstalls
    /\ \E c \in Channels :
          /\ insChannel' = c
          /\ insUrl' = repo_url(c)
          /\ insListFile' = list_file(c)
          /\ insGpgFile' = gpg_file(c)
    /\ insPc' = IF insImpl = "tk" THEN "locks" ELSE "list"
    /\ insKeyData' = <<>>
    /\ insWritten' = {}
    /\ insCmds' = <<>>
    /\ insFailed' = "none"
    /\ insReport' = NoReport
    /\ insRuns' = insRuns + 1
    /\ UNCHANGED <<insImpl, insFiles>>
    /\ UNCHANGED notInstall

\* Step 0 of the Tk front-end: self.check_and_fix_apt_locks(), result unused
ins_locks ==
    /\ insPc = "locks"
    /\ insPc' = "list"
    /\ insCmds' = Append(insCmds, "check_and_fix_apt_locks")
    /\ UNCHANGED <<insImpl, insChannel, insUrl, insListFile, insGpgFile, insKeyData,
                   insFiles, insWritten, insFailed, insReport, insRuns>>
    /\ UNCHANGED notInstall

\* Step 1: sudo tee list_file with repo_content
ins_list ==
    /\ insPc = "list"
    /\ \E o \in {"ok", "nonzero", "truncated", "raise"} :
          /\ insFiles' = CASE o = "ok" -> WriteFile(insFiles, insListFile, repo_content(insUrl))
                           [] o = "truncated" -> WriteFile(insFiles, insListFile, <<>>)
                           [] OTHER -> insFiles
          /\ insWritten' = IF o \in {"ok", "truncated"}
                              THEN insWritten \cup {insListFile} ELSE insWritten
          /\ Step("tee_list", o, "curl")
    /\ UNCHANGED <<insImpl, insChannel, insUrl, insListFile, insGpgFile, insKeyData,
                   insRuns>>
    /\ UNCHANGED notInstall

\* Step 2: curl -fsSL {repo_url}Release.key
ins_curl ==
    /\ insPc = "curl"
    /\ \E o \in {"ok", "nonzero", "raise"} :
          /\ insKeyData' = IF o = "ok" THEN Served(key_url(insUrl)) ELSE insKeyData
          /\ Step("curl", o, "gpg")
    /\ UNCHANGED <<insImpl, insChannel, insUrl, insListFile, insGpgFile, insFiles,
                   insWritten, insRuns>>
    /\ UNCHANGED notInstall

\* Step 3: gpg --dearmor on the downloaded key
ins_gpg ==
    /\ insPc = "gpg"
    /\ \E o \in {"ok", "nonzero", "raise"} :
          /\ insKeyData' = IF o = "ok" THEN Dearmor(insKeyData) ELSE insKeyData
          /\ Step("gpg", o, IF insImpl = "gtk" THEN "key_tmp" ELSE "key_tee")
    /\ UNCHANGED <<insImpl, insChannel, insUrl, insListFile, insGpgFile, insFiles,
                   insWritten, insRuns>>
    /\ UNCHANGED notInstall

\* GTK: open('/tmp/temp_gpg_key', 'wb') and write; on an error os.remove of
\* the temporary file is tried
ins_key_tmp ==
    /\ insPc = "key_tmp"
    /\ \E ok \in BOOLEAN, rm \in BOOLEAN :
          /\ insFiles' = CASE ok -> WriteFile(insFiles, temp_gpg_key, insKeyData)
                           [] ~ok /\ rm -> RemoveFile(insFiles, temp_gpg_key)
                           [] OTHER -> insFiles
          /\ insWritten' = IF ok THEN insWritten \cup {temp_gpg_key} ELSE insWritten
          /\ Step("write_temp_key", IF ok THEN "ok" ELSE "raise", "key_mv")
    /\ UNCHANGED <<insImpl, insChannel, insUrl, insListFile, insGpgFile, insKeyData,
                   insRuns>>
    /\ UNCHANGED notInstall

\* GTK: sudo mv /tmp/temp_gpg_key gpg_file
ins_key_mv ==
    /\ insPc = "key_mv"
    /\ \E o \in {"ok", "nonzero", "raise"} :
          /\ insFiles' = IF o = "ok"
                            THEN RemoveFile(WriteFile(insFiles, insGpgFile,
                                                      FileContent(insFiles, temp_gpg_key)),
                                            temp_gpg_key)
                            ELSE RemoveFile(insFiles, temp_gpg_key)
          /\ insWritten' = IF o = "ok" THEN insWritten \cup {insGpgFile} ELSE insWritten
          /\ Step("mv_key", o, "key_chmod")
    /\ UNCHANGED <<insImpl, insChannel, insUrl, insListFile, insGpgFile, insKeyData,
                   insRuns>>
    /\ UNCHANGED notInstall

\* GTK: sudo chmod 644 gpg_file; its exit code is not looked at
ins_key_chmod ==
    /\ insPc = "key_chmod"
    /\ \E o \in {"ok", "nonzero", "raise"} : Step("chmod_key", o, "update")
    /\ UNCHANGED <<insImpl, insChannel, insUrl, insListFile, insGpgFile, insKeyData,
                   insFiles, insWritten, insRuns>>
    /\ UNCHANGED notInstall

\* Tk: sudo tee gpg_file with gpg_output
ins_key_tee ==
    /\ insPc = "key_tee"
    /\ \E o \in {"ok", "nonzero", "truncated", "raise"} :
          /\ insFiles' = CASE o = "ok" -> WriteFile(insFiles, insGpgFile, insKeyData)
                           [] o = "truncated" -> WriteFile(insFiles, insGpgFile, <<>>)
                           [] OTHER -> insFiles
          /\ insWritten' = IF o \in {"ok", "truncated"}
                              THEN insWritten \cup {insGpgFile} ELSE insWritten
          /\ Step("tee_key", o, "update")
    /\ UNCHANGED <<insImpl, insChannel, insUrl, insListFile, insGpgFile, insKeyData,
                   insRuns>>
    /\ UNCHANGED notInstall

\* Step 4: apt update (GTK: run_sudo_command with timeout 120; Tk:
\* safe_apt_command); a non-zero exit is logged as a warning, an exception
\* (the timeout of run_command, the raise of safe_apt_command's last attempt)
\* reaches the outer except
ins_update ==
    /\ insPc = "update"
    /\ \E o \in {"ok", "nonzero", "raise"} : Step("apt_update", o, "install")
    /\ UNCHANGED <<insImpl, insChannel, insUrl, insListFile, insGpgFile, insKeyData,
                   insFiles, insWritten, insRuns>>
    /\ UNCHANGED notInstall

\* Step 5: apt install -y meshtasticd.  Tk with an existing config.yaml: a
\* non-zero exit of the non-interactive install leads to the interactive one.
ins_install ==
    /\ insPc = "install"
    /\ \E o \in {"ok", "nonzero", "raise"}, config_exists \in BOOLEAN :
          IF insImpl = "tk" /\ config_exists /\ o = "nonzero"
             THEN /\ insCmds' = Append(insCmds, "apt_install")
                  /\ insPc' = "dpkg_configure"
                  /\ UNCHANGED <<insFailed, insReport>>
             ELSE Step("apt_install", o, "done")
    /\ UNCHANGED <<insImpl, insChannel, insUrl, insListFile, insGpgFile, insKeyData,
                   insFiles, insWritten, insRuns>>
    /\ UNCHANGED notInstall

\* Tk: sudo dpkg --configure -a before the interactive install; only logged
ins_dpkg_configure ==
    /\ insPc = "dpkg_configure"
    /\ \E o \in {"ok", "nonzero", "raise"} : Step("dpkg_configure", o, "interactive")
    /\ UNCHANGED <<insImpl, insChannel, insUrl, insListFile, insGpgFile, insKeyData,
                   insFiles, insWritten, insRuns>>
    /\ UNCHANGED notInstall

\* Tk: the interactive apt install (Popen); the user may cancel at the
\* config-file prompt
ins_interactive ==
    /\ insPc = "interactive"
    /\ \E o \in {"ok", "nonzero", "raise", "cancel"} :
          IF o = "cancel"
             THEN /\ insCmds' = Append(insCmds, "apt_install_interactive")
                  /\ insPc' = "cancelled"
                  /\ insReport' = [kind |-> "cancelled", detail |-> "Installation cancelled by user"]
                  /\ UNCHANGED insFailed
             ELSE Step("apt_install_interactive", o, "done")
    /\ UNCHANGED <<insImpl, insChannel, insUrl, insListFile, insGpgFile, insKeyData,
                   insFiles, insWritten, insRuns>>
    /\ UNCHANGED notInstall

\* The procedure has returned (done, cancelled) or raised / returned early
\* (failed)
ins_finish ==
    /\ insPc \in {"done", "failed", "cancelled"}
    /\ insPc' = "idle"
    /\ insChannel' = "none"
    /\ insUrl' = <<>>
    /\ insListFile' = <<>>
    /\ insGpgFile' = <<>>
    /\ insKeyData' = <<>>
    /\ insWritten' = {}
    /\ insCmds' = <<>>
    /\ insFailed' = "none"
    /\ insReport' = NoReport
    /\ UNCHANGED <<insImpl, insFiles, insRuns>>
    /\ UNCHANGED notInstall

InstallNext ==
    \/ ins_start
    \/ ins_locks
    \/ ins_list
    \/ ins_curl
    \/ ins_gpg
    \/ ins_key_tmp
    \/ ins_key_mv
    \/ ins_key_chmod
    \/ ins_key_tee
    \/ ins_update
    \/ ins_install
    \/ ins_dpkg_configure
    \/ ins_interactive
    \/ ins_finish

(***************************************************************************)
(* Worker threads                                                           *)
(***************************************************************************)
MaxTasks == 6

Tasks == 1..MaxTasks

PoolRunning == {t \in Tasks : poolTask[t] = "running"}

PoolQueued == {t \in Tasks : poolTask[t] = "queued"}

PoolStart(impls) ==
    /\ poolImpl \in impls
    /\ poolCount = 0
    /\ poolTask = [t \in Tasks |-> "none"]

PoolInit == PoolStart({"tk", "gtk"})

\* ThreadManager.submit_task: executor.submit(func) puts the task in the
\* executor's work queue
submit_task ==
    /\ poolImpl = "gtk"
    /\ poolCount < MaxTasks
    /\ poolCount' = poolCount + 1
    /\ poolTask' = [poolTask EXCEPT ![poolCount + 1] = "queued"]
    /\ UNCHANGED poolImpl
    /\ UNCHANGED notPool

\* ThreadPoolExecutor(max_workers): one of at most max_workers threads takes
\* the oldest queued task when it is not running another
pool_take ==
    /\ poolImpl = "gtk"
    /\ PoolQueued # {}
    /\ Cardinality(PoolRunning) < max_workers
    /\ LET t == CHOOSE q \in PoolQueued : \A r \in PoolQueued : q <= r IN
          poolTask' = [poolTask EXCEPT ![t] = "running"]
    /\ UNCHANGED <<poolImpl, poolCount>>
    /\ UNCHANGED notPool

\* run_command_async and the handlers of the Tk front-end:
\* threading.Thread(target=worker, daemon=True).start()
thread_start ==
    /\ poolImpl = "tk"
    /\ poolCount < MaxTasks
    /\ poolCount' = poolCount + 1
    /\ poolTask' = [poolTask EXCEPT ![poolCount + 1] = "running"]
    /\ UNCHANGED poolImpl
    /\ UNCHANGED notPool

\* worker() returns
pool_finish ==
    /\ \E t \in PoolRunning :
          poolTask' = [poolTask EXCEPT ![t] = "done"]
    /\ UNCHANGED <<poolImpl, poolCount>>
    /\ UNCHANGED notPool

PoolNext ==
    \/ submit_task
    \/ pool_take
    \/ thread_start
    \/ pool_finish

(***************************************************************************)
(* Log messages                                                             *)
(***************************************************************************)
MaxLogWorkers == 2

MaxMsgs == 2

LogWorkers == 1..MaxLogWorkers

\* queue.Queue.put: first in, first out
QueuePutMut(q, m) == <<m>> \o q
QueuePut(q, m) == Append(q, m)

LogStart(impls) ==
    /\ logImpl \in impls
    /\ emitted = [w \in LogWorkers |-> 0]
    /\ output_queue = <<>>
    /\ messages = <<>>
    /\ output = <<>>
    /\ drainPc = "idle"

LogInit == LogStart({"tk", "gtk"})

\* logging.info(...) on a worker: QueueHandler.emit puts the message
log_emit ==
    /\ \E w \in LogWorkers :
          /\ emitted[w] < MaxMsgs
          /\ emitted' = [emitted EXCEPT ![w] = @ + 1]
          /\ output_queue' = QueuePut(output_queue, [w |-> w, n |-> emitted[w] + 1])
    /\ UNCHANGED <<logImpl, messages, output, drainPc>>
    /\ UNCHANGED notLog

\* the timer calls check_output_queue / _check_output_queue
drain_start ==
    /\ drainPc = "idle"
    /\ drainPc' = "get"
    /\ UNCHANGED <<logImpl, emitted, output_queue, messages, output>>
    /\ UNCHANGED notLog

\* message = output_queue.get_nowait(); Tk appends it at once, GTK keeps it
\* in the list
drain_get ==
    /\ drainPc = "get"
    /\ output_queue # <<>>
    /\ output_queue' = Tail(output_queue)
    /\ IF logImpl = "tk"
          THEN /\ output' = Append(output, Head(output_queue))
               /\ UNCHANGED messages
          ELSE /\ messages' = Append(messages, Head(output_queue))
               /\ UNCHANGED output
    /\ UNCHANGED <<logImpl, emitted, drainPc>>
    /\ UNCHANGED notLog

\* queue.Empty: break; GTK now appends the list, message by message
drain_empty ==
    /\ drainPc = "get"
    /\ output_queue = <<>>
    /\ output' = output \o messages
    /\ messages' = <<>>
    /\ drainPc' = "idle"
    /\ UNCHANGED <<logImpl, emitted, output_queue>>
    /\ UNCHANGED notLog

LogNext ==
    \/ log_emit
    \/ drain_start
    \/ drain_get
    \/ drain_empty

(***************************************************************************)
(* The command runner                                                       *)
(***************************************************************************)
DEFAULT_TIMEOUT == 300

\* Seconds: the timeout arguments callers pass (0 stands for None) and how
\* long the child process runs
Timeouts == {0, 10, 120}

Durations == {5, 60, 200, 400}

MaxExit == 2

Launches == {"ok", "not_found", "permission_denied"}

NoArgs == [sudo |-> FALSE, timeout |-> 0, launch |-> "ok", duration |-> 5, rc |-> 0]

NoRun == [kind |-> "none", returncode |-> 0, timed_out |-> FALSE, error |-> ""]

\* subprocess.run(cmd, capture_output=True, text=True, timeout=timeout)
subprocess_run(launch, duration, rc, timeout) ==
    IF launch # "ok" THEN "OSError"
    ELSE IF duration > timeout THEN "TimeoutExpired"
    ELSE "completed"

\* timeout = timeout or self.config.DEFAULT_TIMEOUT; return result, or raise
\* MeshtasticError from either except branch
run_command(launch, duration, rc, timeout) ==
    LET t == IF timeout = 0 THEN DEFAULT_TIMEOUT ELSE timeout
        r == subprocess_run(launch, duration, rc, t)
    IN CASE r = "completed" ->
              [kind |-> "returned", returncode |-> rc, timed_out |-> FALSE, error |-> ""]
         [] r = "TimeoutExpired" ->
              [kind |-> "raised", returncode |-> 0, timed_out |-> FALSE,
               error |-> "Command timed out"]
         [] OTHER ->
              [kind |-> "raised", returncode |-> 0, timed_out |-> FALSE,
               error |-> "Command failed"]

\* sudo_cmd = ["sudo"] + cmd; return self.run_command(sudo_cmd, ...)
run_sudo_command(launch, duration, rc, timeout) ==
    run_command(launch, duration, rc, timeout)

RunStart ==
    /\ runArgs = NoArgs
    /\ runResult = NoRun

RunInit == RunStart

run_command_call ==
    /\ \E launch \in Launches, d \in Durations, rc \in 0..MaxExit, t \in Timeouts :
          /\ runArgs' = [sudo |-> FALSE, timeout |-> t, launch |-> launch,
                         duration |-> d, rc |-> rc]
          /\ runResult' = run_command(launch, d, rc, t)
    /\ UNCHANGED notRun

run_sudo_command_call ==
    /\ \E launch \in Launches, d \in Durations, rc \in 0..MaxExit, t \in Timeouts :
          /\ runArgs' = [sudo |-> TRUE, timeout |-> t, launch |-> launch,
                         duration |-> d, rc |-> rc]
          /\ runResult' = run_sudo_command(launch, d, rc, t)
    /\ UNCHANGED notRun

RunNext ==
    \/ run_command_call
    \/ run_sudo_command_call

(***************************************************************************)
(* The handlers of the window                                               *)
(***************************************************************************)
MaxExisting == 2

EnableHandlers ==
    {"handle_enable_spi", "handle_enable_i2c", "handle_enable_gps_uart", "handle_enable_boot"}

Handlers == EnableHandlers \cup {"handle_hat_config", "update_status_indicators"}

\* One step of a handler or of an operation: an external command, a file
\* read, a dialog, a log line or the submission of an operation; probe marks
\* the queries of the status checks
St(kind, what, probe) == [kind |-> kind, what |-> what, probe |-> probe]

\* What the status check of an enable handler does
StatusProbe(h) ==
    IF h = "handle_enable_boot"
       THEN St("command", "systemctl is-enabled", TRUE)
       ELSE St("file", "read config.txt", TRUE)

\* if self.status_checker.check_..._status(): log, else: run the operation
HandlerSubmitsMut(status) == TRUE
HandlerSubmits(status) == ~status

\* The commands of the operation a handler submits, run by worker()
WorkerProgram(h) ==
    CASE h = "handle_enable_spi" ->
            <<St("command", "raspi-config do_spi", FALSE), St("command", "cp backup", FALSE),
              St("command", "cat", FALSE), St("command", "tee", FALSE)>>
      [] h = "handle_enable_i2c" ->
            <<St("command", "raspi-config do_i2c", FALSE), St("command", "cp backup", FALSE),
              St("command", "cat", FALSE), St("command", "tee", FALSE)>>
      [] h = "handle_enable_gps_uart" ->
            <<St("command", "cp backup", FALSE), St("command", "cat", FALSE),
              St("command", "tee", FALSE), St("command", "raspi-config do_serial_cons", FALSE)>>
      [] h = "handle_enable_boot" ->
            <<St("command", "systemctl enable", FALSE)>>
      [] OTHER -> <<>>

\* update_status_indicators: every status check in turn, then the version
update_status_steps(cli) ==
    <<St("command", "dpkg -l meshtasticd", TRUE), St("command", "which meshtasticd", TRUE),
      St("file", "read config.txt", TRUE), St("file", "read config.txt", TRUE),
      St("file", "read config.txt", TRUE), St("file", "read config.txt", TRUE),
      St("file", "glob config.d", TRUE),
      St("command", "meshtastic --version", TRUE),
      St("command", "meshtastic --version", TRUE)>>
    \o (IF cli THEN <<St("command", "meshtastic --get lora.region", TRUE)>> ELSE <<>>)
    \o <<St("command", "dpkg -l avahi-daemon", TRUE),
         St("command", "systemctl is-enabled", TRUE),
         St("command", "systemctl is-active", TRUE),
         St("command", "dpkg-query", TRUE)>>

\* handle_hat_config: existing configs in config.d, the user's answer to
\* "replace them?", and whether available.d offers anything
hat_config_steps(existing, replace, available, cli) ==
    <<St("command", "mkdir", FALSE), St("command", "mkdir", FALSE),
      St("file", "glob config.d", FALSE)>>
    \o (IF existing > 0 THEN <<St("dialog", "replace?", FALSE)>> ELSE <<>>)
    \o (IF existing > 0 /\ ~replace
           THEN <<>>
           ELSE [i \in 1..existing |-> St("command", "rm", FALSE)]
                \o <<St("file", "glob available.d", FALSE)>>
                \o (IF available
                       THEN <<St("dialog", "choose config", FALSE),
                              St("command", "cp", FALSE)>>
                       ELSE <<St("dialog", "no configurations", FALSE)>>)
                \o update_status_steps(cli))

UiProgram(h, status, existing, replace, available, cli) ==
    CASE h \in EnableHandlers ->
            <<StatusProbe(h)>>
            \o (IF HandlerSubmits(status)
                   THEN <<St("submit", h, FALSE)>>
                   ELSE <<St("log", "already enabled", FALSE)>>)
      [] h = "handle_hat_config" -> hat_config_steps(existing, replace, available, cli)
      [] OTHER -> update_status_steps(cli)

Ran(thread, st) == [thread |-> thread, kind |-> st.kind, what |-> st.what, probe |-> st.probe]

UiStart ==
    /\ uiPc = "idle"
    /\ uiHandler = "none"
    /\ uiStatus = FALSE
    /\ uiTodo = <<>>
    /\ wkTodo = <<>>
    /\ uiTrace = <<>>

UiInit == UiStart

\* The main loop calls a handler (a button press) or the status update (a
\* timer); what the handler will find is chosen here. Inputs a handler does
\* not look at are left at their defaults.
ui_dispatch ==
    /\ uiPc = "idle"
    /\ \E h \in Handlers, status \in BOOLEAN, existing \in 0..MaxExisting,
          replace \in BOOLEAN, available \in BOOLEAN, cli \in BOOLEAN :
          /\ h \notin EnableHandlers => ~status
          /\ h # "handle_hat_config" => (existing = 0 /\ ~replace /\ ~available)
          /\ h \in EnableHandlers => ~cli
          /\ uiHandler' = h
          /\ uiStatus' = status
          /\ uiTodo' = UiProgram(h, status, existing, replace, available, cli)
    /\ uiPc' = "running"
    /\ wkTodo' = <<>>
    /\ uiTrace' = <<>>
    /\ UNCHANGED notUi

\* The UI thread runs the next step of the handler; a submit step hands the
\* operation to a worker (_run_operation_with_progress)
ui_step ==
    /\ uiPc = "running"
    /\ uiTodo # <<>>
    /\ uiTrace' = Append(uiTrace, Ran("ui", Head(uiTodo)))
    /\ uiTodo' = Tail(uiTodo)
    /\ wkTodo' = IF Head(uiTodo).kind = "submit" THEN WorkerProgram(uiHandler) ELSE wkTodo
    /\ UNCHANGED <<uiPc, uiHandler, uiStatus>>
    /\ UNCHANGED notUi

\* The worker runs the next command of the operation; after the last one it
\* hands the success callback, update_status_indicators, to the main loop
wk_step ==
    /\ uiPc = "running"
    /\ wkTodo # <<>>
    /\ uiTrace' = Append(uiTrace, Ran("worker", Head(wkTodo)))
    /\ wkTodo' = Tail(wkTodo)
    /\ \E cli \in BOOLEAN :
          uiTodo' = IF Len(wkTodo) = 1 THEN uiTodo \o update_status_steps(cli) ELSE uiTodo
    /\ UNCHANGED <<uiPc, uiHandler, uiStatus>>
    /\ UNCHANGED notUi

\* Nothing is left to run
ui_return ==
    /\ uiPc = "running"
    /\ uiTodo = <<>>
    /\ wkTodo = <<>>
    /\ uiPc' = "idle"
    /\ UNCHANGED <<uiHandler, uiStatus, uiTodo, wkTodo, uiTrace>>
    /\ UNCHANGED notUi

UiNext ==
    \/ ui_dispatch
    \/ ui_step
    \/ wk_step
    \/ ui_return

(***************************************************************************)
(* Config-edit operations running at the same time.  Each worker runs the   *)
(* steps of one operation; the steps of the two workers interleave freely.  *)
(***************************************************************************)
\* Operations that can run at the same time
MaxConc == 2

Workers == 1..MaxConc

\* tee opens its output file with O_TRUNC before it reads its input
TeeOpen(file) == <<>>

\* tee then writes its input from offset 0 of its own file descriptor: what
\* another writer has put beyond the end of the input since the open stays
TeeDataMut(file, content) == file \o content
TeeData(file, content) == content \o SubSeq(file, Len(content) + 1, Len(file))

ConcStart(impls, pi5s, contents) ==
    /\ ccImpl \in impls
    /\ ccPi5 \in pi5s
    /\ ccFile \in contents
    /\ ccPc = [w \in Workers |-> "idle"]
    /\ ccOp = [w \in Workers |-> "none"]
    /\ ccRead = [w \in Workers |-> <<>>]
    /\ ccContent = [w \in Workers |-> <<>>]
    /\ ccClean = [w \in Workers |-> TRUE]

ConcInit == ConcStart({"gtk", "tk"}, BOOLEAN, EditInitContents)

\* The handler's status test, then the worker is started; the device files
\* are all there or all missing
cc_start ==
    /\ \E w \in Workers, op \in EditOps, devs \in {{}, AllDevs}, readable \in BOOLEAN :
          /\ ccPc[w] = "idle"
          /\ ~AlreadyEnabled(op, devs, readable, ccFile, ccPi5)
          /\ ccOp' = [ccOp EXCEPT ![w] = op]
          /\ ccPc' = [ccPc EXCEPT ![w] = IF op \in {"spi", "i2c"} THEN "raspi" ELSE "backup"]
    /\ UNCHANGED <<ccImpl, ccPi5, ccFile, ccRead, ccContent, ccClean>>
    /\ UNCHANGED notConc

\* sudo raspi-config nonint do_spi 0 / do_i2c 0
cc_raspi ==
    /\ \E w \in Workers, o \in {"ok_edit", "ok", "nonzero", "raise"} :
          /\ ccPc[w] = "raspi"
          /\ ccFile' = IF o = "ok_edit"
                          THEN RaspiEdit(ccFile, RaspiDirective(ccOp[w]))
                          ELSE ccFile
          /\ ccPc' = [ccPc EXCEPT ![w] = IF o = "raise" THEN "failed" ELSE "backup"]
          /\ ccClean' = [ccClean EXCEPT ![w] = @ /\ o \in {"ok_edit", "ok"}]
    /\ UNCHANGED <<ccImpl, ccPi5, ccOp, ccRead, ccContent>>
    /\ UNCHANGED notConc

\* sudo cp config_file backup_file; the backup files are not looked at here
cc_backup ==
    /\ \E w \in Workers, o \in {"ok", "nonzero", "raise"} :
          /\ ccPc[w] = "backup"
          /\ ccPc' = [ccPc EXCEPT ![w] = IF BackupGoesOn(ccImpl, o) THEN "read" ELSE "failed"]
          /\ ccClean' = [ccClean EXCEPT ![w] = @ /\ o = "ok"]
    /\ UNCHANGED <<ccImpl, ccPi5, ccFile, ccOp, ccRead, ccContent>>
    /\ UNCHANGED notConc

\* sudo cat config_file, then the membership tests and the appends
cc_read ==
    /\ \E w \in Workers, o \in {"ok", "nonzero", "raise"} :
          /\ ccPc[w] = "read"
          /\ ccClean' = [ccClean EXCEPT ![w] = @ /\ o = "ok"]
          /\ IF ReadGoesOn(ccImpl, o)
                THEN LET c == ReadContent(ccImpl, o, ccFile)
                         r == EditOf(ccOp[w], c, ccPi5) IN
                       /\ ccRead' = [ccRead EXCEPT ![w] = c]
                       /\ ccContent' = [ccContent EXCEPT ![w] = r.content]
                       /\ ccPc' = [ccPc EXCEPT ![w] =
                                     IF r.updated THEN "write" ELSE AfterEdit(ccOp[w])]
                ELSE /\ ccPc' = [ccPc EXCEPT ![w] = "failed"]
                     /\ UNCHANGED <<ccRead, ccContent>>
    /\ UNCHANGED <<ccImpl, ccPi5, ccFile, ccOp>>
    /\ UNCHANGED notConc

\* sudo tee config_file starts: it opens the file, or fails before that
cc_tee_open ==
    /\ \E w \in Workers, o \in {"ok", "nonzero", "raise"} :
          /\ ccPc[w] = "write"
          /\ ccFile' = IF o = "ok" THEN TeeOpen(ccFile) ELSE ccFile
          /\ ccPc' = [ccPc EXCEPT ![w] =
                        CASE o = "ok" -> "writing"
                          [] WriteGoesOn(ccImpl, o) -> AfterEdit(ccOp[w])
                          [] OTHER -> "failed"]
          /\ ccClean' = [ccClean EXCEPT ![w] = @ /\ o = "ok"]
    /\ UNCHANGED <<ccImpl, ccPi5, ccOp, ccRead, ccContent>>
    /\ UNCHANGED notConc

\* tee writes config_content and exits; "truncated": the write failed
cc_tee_data ==
    /\ \E w \in Workers, o \in {"ok", "truncated"} :
          /\ ccPc[w] = "writing"
          /\ ccFile' = IF o = "ok" THEN TeeData(ccFile, ccContent[w]) ELSE ccFile
          /\ ccPc' = [ccPc EXCEPT ![w] =
                        IF WriteGoesOn(ccImpl, o) THEN AfterEdit(ccOp[w]) ELSE "failed"]
          /\ ccClean' = [ccClean EXCEPT ![w] = @ /\ o = "ok"]
    /\ UNCHANGED <<ccImpl, ccPi5, ccOp, ccRead, ccContent>>
    /\ UNCHANGED notConc

\* sudo raspi-config nonint do_serial_cons 1: the result is only logged
cc_serial ==
    /\ \E w \in Workers, o \in {"ok", "nonzero", "raise"} :
          /\ ccPc[w] = "serial"
          /\ ccPc' = [ccPc EXCEPT ![w] = IF o = "raise" THEN "failed" ELSE "done"]
          /\ ccClean' = [ccClean EXCEPT ![w] = @ /\ o = "ok"]
    /\ UNCHANGED <<ccImpl, ccPi5, ccFile, ccOp, ccRead, ccContent>>
    /\ UNCHANGED notConc

ConcNext ==
    \/ cc_start
    \/ cc_raspi
    \/ cc_backup
    \/ cc_read
    \/ cc_tee_open
    \/ cc_tee_data
    \/ cc_serial

(***************************************************************************)
(* A worker and the external commands it waits for.  A command that has     *)
(* been started exits by itself, or it hangs (sudo asking for a password,   *)
(* a dpkg prompt, lsof on a dead mount): then only a timeout ends it.       *)
(***************************************************************************)
WaitOps == {"spi", "i2c", "gps", "locks"}

\* The commands of an operation, in order; "locks" is the part of an
\* install operation that runs check_and_fix_apt_locks (Tk only)
Commands(op) ==
    CASE op = "spi" -> <<"raspi-config", "cp", "cat", "tee">>
      [] op = "i2c" -> <<"raspi-config", "cp", "cat", "tee">>
      [] op = "gps" -> <<"cp", "cat", "tee", "raspi-config">>
      [] OTHER      -> <<"dpkg --audit", "dpkg --configure", "lsof", "killall", "lsof", "rm">>

\* SystemManager.run_command always passes a timeout (DEFAULT_TIMEOUT when
\* none is given); the Tk front-end calls subprocess.run without one, except
\* for dpkg --configure -a (timeout=60)
HasTimeout(i, cmd) == i = "gtk" \/ cmd = "dpkg --configure"

\* check=True in the Tk handlers: a non-zero exit of cp, cat or tee raises
ExitFails(i, cmd) == ChecksExit(i) /\ cmd \in {"cp", "cat", "tee"}

WaitStart(impls) ==
    /\ wtImpl \in impls
    /\ wtOp = "none"
    /\ wtPc = "idle"
    /\ wtTodo = <<>>
    /\ wtCmd = "none"
    /\ wtNonzero = FALSE

WaitInit == WaitStart({"gtk", "tk"})

\* An operation is submitted and its worker starts
wt_submit ==
    /\ wtPc = "idle"
    /\ \E op \in WaitOps :
          /\ op = "locks" => wtImpl = "tk"
          /\ wtOp' = op
          /\ wtTodo' = Commands(op)
    /\ wtPc' = "running"
    /\ wtCmd' = "none"
    /\ wtNonzero' = FALSE
    /\ UNCHANGED wtImpl
    /\ UNCHANGED notWait

\* subprocess.run starts the next command; a launch error ends the operation
wt_launch ==
    /\ wtPc = "running"
    /\ wtTodo # <<>>
    /\ wtCmd = "none"
    /\ \E o \in {"started", "raise"} :
          IF o = "started"
             THEN wtCmd' = "running" /\ wtPc' = wtPc
             ELSE wtCmd' = "none" /\ wtPc' = "failed"
    /\ UNCHANGED <<wtImpl, wtOp, wtTodo, wtNonzero>>
    /\ UNCHANGED notWait

\* The command turns out to be one that never exits by itself
wt_hang ==
    /\ wtPc = "running"
    /\ wtCmd = "running"
    /\ wtCmd' = "hung"
    /\ UNCHANGED <<wtImpl, wtOp, wtPc, wtTodo, wtNonzero>>
    /\ UNCHANGED notWait

\* The command exits and subprocess.run returns
wt_exit ==
    /\ wtPc = "running"
    /\ wtCmd = "running"
    /\ \E rc \in {0, 1} :
          /\ wtNonzero' = (wtNonzero \/ rc # 0)
          /\ IF rc # 0 /\ ExitFails(wtImpl, Head(wtTodo))
                THEN wtPc' = "failed" /\ wtTodo' = wtTodo
                ELSE wtPc' = wtPc /\ wtTodo' = Tail(wtTodo)
    /\ wtCmd' = "none"
    /\ UNCHANGED <<wtImpl, wtOp>>
    /\ UNCHANGED notWait

\* The timeout of subprocess.run expires: the child is killed and
\* TimeoutExpired is raised
wt_timeout ==
    /\ wtPc = "running"
    /\ wtCmd \in {"running", "hung"}
    /\ HasTimeout(wtImpl, Head(wtTodo))
    /\ wtCmd' = "none"
    /\ wtPc' = "failed"
    /\ UNCHANGED <<wtImpl, wtOp, wtTodo, wtNonzero>>
    /\ UNCHANGED notWait

\* No command is left: the operation returns
wt_return ==
    /\ wtPc = "running"
    /\ wtTodo = <<>>
    /\ wtPc' = "succeeded"
    /\ UNCHANGED <<wtImpl, wtOp, wtTodo, wtCmd, wtNonzero>>
    /\ UNCHANGED notWait

\* The result has been consumed; the next operation can be submitted
wt_done ==
    /\ wtPc \in {"succeeded", "failed"}
    /\ wtPc' = "idle"
    /\ wtOp' = "none"
    /\ wtTodo' = <<>>
    /\ wtCmd' = "none"
    /\ wtNonzero' = FALSE
    /\ UNCHANGED wtImpl
    /\ UNCHANGED notWait

WaitNext ==
    \/ wt_submit
    \/ wt_launch
    \/ wt_hang
    \/ wt_exit
    \/ wt_timeout
    \/ wt_return
    \/ wt_done

\* The worker is scheduled, a command that does not hang exits, and a
\* timeout that is set expires
WaitFairness ==
    /\ WF_vars(wt_launch)
    /\ WF_vars(wt_exit)
    /\ WF_vars(wt_timeout)
    /\ WF_vars(wt_return)

(***************************************************************************)
(* handle_hat_config: replace the HAT config in config.d by one of          *)
(* available.d                                                              *)
(***************************************************************************)
\* Config files offered in available.d, by number
MaxConfigs == 3

Configs == 1..MaxConfigs

HatStart(impls, dirs) ==
    /\ hcImpl \in impls
    /\ hcConfigD \in dirs
    /\ hcPc = "idle"
    /\ hcTodo = {}
    /\ hcPick = 0

HatInit == HatStart({"gtk", "tk"}, {d \in SUBSET Configs : Cardinality(d) <= 1})

\* The two mkdir -p, the glob of config.d and the question "replace them?"
hc_start ==
    /\ hcPc = "idle"
    /\ \E mk \in {"ok", "nonzero", "raise"}, replace \in BOOLEAN :
          CASE mk = "raise" \/ (mk = "nonzero" /\ ChecksExit(hcImpl)) ->
                  hcPc' = "end" /\ hcTodo' = {}
            [] hcConfigD # {} /\ ~replace ->
                  hcPc' = "end" /\ hcTodo' = {}
            [] hcConfigD # {} ->
                  hcPc' = "remove" /\ hcTodo' = hcConfigD
            [] OTHER ->
                  hcPc' = "choose" /\ hcTodo' = {}
    /\ hcPick' = 0
    /\ UNCHANGED <<hcImpl, hcConfigD>>
    /\ UNCHANGED notHat

\* for config_file in existing_configs: sudo rm config_file.  The Tk
\* front-end runs it with check=True; run_sudo_command returns the result
\* and the handler does not look at it.
hc_rm ==
    /\ hcPc = "remove"
    /\ \E f \in hcTodo, o \in {"ok", "nonzero", "raise"} :
          /\ hcConfigD' = IF o = "ok" THEN hcConfigD \ {f} ELSE hcConfigD
          /\ IF o = "raise" \/ (o = "nonzero" /\ ChecksExit(hcImpl))
                THEN hcPc' = "end" /\ hcTodo' = {}
                ELSE /\ hcTodo' = hcTodo \ {f}
                     /\ hcPc' = IF hcTodo \ {f} = {} THEN "choose" ELSE "remove"
    /\ UNCHANGED <<hcImpl, hcPick>>
    /\ UNCHANGED notHat

\* available.d is listed and the dialogs run: the user ends up with one
\* config file to copy, or with none (nothing available, or Cancel)
hc_choose ==
    /\ hcPc = "choose"
    /\ \E pick \in Configs \cup {0} :
          /\ hcPick' = pick
          /\ hcPc' = IF pick = 0 THEN "end" ELSE "copy"
    /\ UNCHANGED <<hcImpl, hcConfigD, hcTodo>>
    /\ UNCHANGED notHat

\* sudo cp source config.d/name
hc_copy ==
    /\ hcPc = "copy"
    /\ \E o \in {"ok", "nonzero", "raise"} :
          hcConfigD' = IF o = "ok" THEN hcConfigD \cup {hcPick} ELSE hcConfigD
    /\ hcPc' = "end"
    /\ UNCHANGED <<hcImpl, hcTodo, hcPick>>
    /\ UNCHANGED notHat

\* the handler returns
hc_end ==
    /\ hcPc = "end"
    /\ hcPc' = "idle"
    /\ hcPick' = 0
    /\ hcTodo' = {}
    /\ UNCHANGED <<hcImpl, hcConfigD>>
    /\ UNCHANGED notHat

HatNext ==
    \/ hc_start
    \/ hc_rm
    \/ hc_choose
    \/ hc_copy
    \/ hc_end

\* The subsystems at rest, for the specifications of the other subsystems
RetryIdle == RetryStart({[f \in LockIds |-> "absent"]})

StatusIdle ==
    /\ stDevs = {}
    /\ stReadable = TRUE
    /\ stContent = <<>>
    /\ stPi5 = FALSE
    /\ stHat = "none"
    /\ stProbe = "none"
    /\ stResult = FALSE
    /\ stIn = NoIn
    /\ stRaised = FALSE

EditIdle == EditStart({"gtk"}, {FALSE}, {<<>>})

OrchIdle == OrchInit

InstallIdle == InstallStart({"gtk"})

HatIdle == HatStart({"gtk"}, {{}})

WaitIdle == WaitStart({"gtk"})

ConcIdle == ConcStart({"gtk"}, {FALSE}, {<<>>})

UiIdle == UiStart

RunIdle == RunStart

LogIdle == LogStart({"gtk"})

PoolIdle == PoolStart({"gtk"})

InitRetry == HatIdle /\ WaitIdle /\ ConcIdle /\ UiIdle /\ RunIdle /\ LogIdle /\ PoolIdle /\ StatusIdle /\ EditIdle /\ OrchIdle /\ InstallIdle /\ RetryInit

SpecRetry == InitRetry /\ [][RetryNext]_vars

\* The thread that runs safe_apt_command goes on: every command it starts
\* ends (with a result, a timeout or an error) and every sleep returns
RetryFairness ==
    /\ WF_vars(sac_loop)
    /\ WF_vars(sac_recovered)
    /\ WF_vars(sac_sleep)
    /\ WF_vars(sac_run)
    /\ WF_vars(sac_killall)
    /\ WF_vars(cf_audit)
    /\ WF_vars(cf_configure)
    /\ WF_vars(cf_scan)
    /\ WF_vars(cf_scan_end)
    /\ WF_vars(cf_kill)
    /\ WF_vars(cf_wait)
    /\ WF_vars(cf_recheck)
    /\ WF_vars(cf_rm)
    /\ WF_vars(cf_recheck_end)

SpecRetryFair == InitRetry /\ [][RetryNext]_vars /\ RetryFairness

InitStatus == HatIdle /\ WaitIdle /\ ConcIdle /\ UiIdle /\ RunIdle /\ LogIdle /\ PoolIdle /\ RetryIdle /\ EditIdle /\ OrchIdle /\ InstallIdle /\ StatusInit

SpecStatus == InitStatus /\ [][StatusNext]_vars

InitProbes == HatIdle /\ WaitIdle /\ ConcIdle /\ UiIdle /\ RunIdle /\ LogIdle /\ PoolIdle /\ RetryIdle /\ EditIdle /\ OrchIdle /\ InstallIdle /\ ProbeInit

SpecProbes == InitProbes /\ [][ProbeNext]_vars

InitEdit == HatIdle /\ WaitIdle /\ ConcIdle /\ UiIdle /\ RunIdle /\ LogIdle /\ PoolIdle /\ RetryIdle /\ StatusIdle /\ OrchIdle /\ InstallIdle /\ EditInit

SpecEdit == InitEdit /\ [][EditNext]_vars

InitOrch == HatIdle /\ WaitIdle /\ ConcIdle /\ UiIdle /\ RunIdle /\ LogIdle /\ PoolIdle /\ RetryIdle /\ StatusIdle /\ EditIdle /\ InstallIdle /\ OrchInit

SpecOrch == InitOrch /\ [][OrchNext]_vars

\* The pool threads run, and the main loop runs its idle callbacks
OrchFairness ==
    /\ WF_vars(w_start)
    /\ WF_vars(w_show)
    /\ WF_vars(w_func)
    /\ WF_vars(w_hide)
    /\ WF_vars(w_notify)
    /\ WF_vars(ui_idle)

SpecOrchFair == InitOrch /\ [][OrchNext]_vars /\ OrchFairness

InitInstall == HatIdle /\ WaitIdle /\ ConcIdle /\ UiIdle /\ RunIdle /\ LogIdle /\ PoolIdle /\ RetryIdle /\ StatusIdle /\ EditIdle /\ OrchIdle /\ InstallInit

SpecInstall == InitInstall /\ [][InstallNext]_vars

InitPool == HatIdle /\ WaitIdle /\ ConcIdle /\ UiIdle /\ RunIdle /\ LogIdle /\ RetryIdle /\ StatusIdle /\ EditIdle /\ OrchIdle /\ InstallIdle /\ PoolInit

SpecPool == InitPool /\ [][PoolNext]_vars

InitLog == HatIdle /\ WaitIdle /\ ConcIdle /\ UiIdle /\ RunIdle /\ RetryIdle /\ StatusIdle /\ EditIdle /\ OrchIdle /\ InstallIdle /\ PoolIdle /\ LogInit

SpecLog == InitLog /\ [][LogNext]_vars

\* The main loop runs: the timer fires and the drain goes on
LogFairness ==
    /\ WF_vars(drain_start)
    /\ WF_vars(drain_get)
    /\ WF_vars(drain_empty)

SpecLogFair == InitLog /\ [][LogNext]_vars /\ LogFairness

InitRun == HatIdle /\ WaitIdle /\ ConcIdle /\ UiIdle /\ RetryIdle /\ StatusIdle /\ EditIdle /\ OrchIdle /\ InstallIdle /\ PoolIdle /\ LogIdle /\ RunInit

SpecRun == InitRun /\ [][RunNext]_vars

InitUi == HatIdle /\ WaitIdle /\ ConcIdle /\ RetryIdle /\ StatusIdle /\ EditIdle /\ OrchIdle /\ InstallIdle /\ PoolIdle /\ LogIdle /\ RunIdle /\ UiInit

SpecUi == InitUi /\ [][UiNext]_vars

InitConc == HatIdle /\ WaitIdle /\ RetryIdle /\ StatusIdle /\ EditIdle /\ OrchIdle /\ InstallIdle /\ PoolIdle /\ LogIdle /\ RunIdle /\ UiIdle /\ ConcInit

SpecConc == InitConc /\ [][ConcNext]_vars

InitWait == HatIdle /\ RetryIdle /\ StatusIdle /\ EditIdle /\ OrchIdle /\ InstallIdle /\ PoolIdle /\ LogIdle /\ RunIdle /\ UiIdle /\ ConcIdle /\ WaitInit

SpecWaitFair == InitWait /\ [][WaitNext]_vars /\ WaitFairness

InitHat == RetryIdle /\ StatusIdle /\ EditIdle /\ OrchIdle /\ InstallIdle /\ PoolIdle /\ LogIdle /\ RunIdle /\ UiIdle /\ ConcIdle /\ WaitIdle /\ HatInit

SpecHat == InitHat /\ [][HatNext]_vars

(***************************************************************************)
(* Claims on the retry subsystem                                            *)
(***************************************************************************)
\* C1: when the command reports lock contention on attempts 1 and 2 and
\* succeeds on attempt 3, safe_apt_command returns the result of attempt 3
\* and has called check_and_fix_apt_locks exactly twice.
C1_LockLockOk ==
    (/\ sacPc = "returned"
     /\ Len(hist) = 3
     /\ HasLockSignature(hist[1])
     /\ HasLockSignature(hist[2])
     /\ hist[3] = OkOutcome)
    => (sacRet = Result(OkOutcome, 2) /\ recoveryCalls = 2)

C1_Witness ==
    /\ sacPc = "returned"
    /\ hist = <<LockOutcome, LockOutcome, OkOutcome>>
    /\ sacRet.kind = "result"
    /\ sacRet.attempt = 3
    /\ recoveryCalls = 2

\* C2: no step ever deletes a lock file that a live process holds at that
\* moment, whatever other package-manager processes do in between.
C2_NeverDeleteHeldLock ==
    [][\A f \in LockIds : Held(lockState[f]) => lockState'[f] # "absent"]_vars

(***************************************************************************)
(* Claims on the status subsystem                                           *)
(***************************************************************************)
HasSpiParam == \E i \in 1..Len(stContent) : stContent[i] \in {"dtparam=spi=on", "#dtparam=spi=on"}
HasSpiOverlay == \E i \in 1..Len(stContent) : stContent[i] = "dtoverlay=spi0-0cs"

\* C7 as stated: check_spi_status is true only when /dev/spidev0.0 exists and
\* both dtparam=spi=on and dtoverlay=spi0-0cs are in the boot config.
C7_OnlySpidev00 ==
    (stProbe = "spi" /\ stResult)
    => ("spidev0.0" \in stDevs /\ HasSpiParam /\ HasSpiOverlay)

\* C7 amended: check_spi_status is true exactly when /dev/spidev0.0 or
\* /dev/spidev0.1 exists, the boot config can be read and holds both
\* dtparam=spi=on and dtoverlay=spi0-0cs; any one of these failing gives false.
C7_SpiStatus ==
    stProbe = "spi"
    => (stResult <=> (/\ stDevs \cap {"spidev0.0", "spidev0.1"} # {}
                      /\ stReadable
                      /\ HasSpiParam
                      /\ HasSpiOverlay))

C7_Witness ==
    /\ stProbe = "spi"
    /\ stResult
    /\ stDevs = {"spidev0.1"}
    /\ HasSpiParam
    /\ HasSpiOverlay

\* C3: when an enable-SPI, enable-I2C or enable-GPS/UART operation has
\* completed, every directive of it whose marker was not in the boot config F
\* the operation started from has its marker exactly once in the boot config,
\* and some backup file holds F byte for byte.
C3_MarkerOnceAndBackupOfF ==
    (edPc = "done" /\ edOp \in {"spi", "i2c", "gps"}) =>
        \A D \in Directives(edOp, isPi5) :
            ~In(D, edStart) =>
                /\ Count(D, bootConfig) = 1
                /\ \E b \in backups : b.content = edStart

\* C4: when an operation that started from a boot config F holding all the
\* markers of its directives has completed, the boot config is F and the
\* operation has not written to it.
C4_AllPresentNoWrite ==
    (edPc = "done" /\ \A D \in Directives(edOp, isPi5) : In(D, edStart)) =>
        (bootConfig = edStart /\ ~edWrote)

\* C5: an operation that completes right after a completed run of the same
\* operation leaves the boot config as that first run left it.
C5_TwiceIsOnce ==
    (edPc = "done" /\ edPrev.ok /\ edPrev.op = edOp) => bootConfig = edStart

(***************************************************************************)
(* Operations: submission, states and completion                            *)
(***************************************************************************)
\* C6: two submitted operations with the same id are never both Queued or
\* Running: a submission made while an operation of that id is Queued or
\* Running is rejected and its procedure never runs.
C6_SameIdNeverOverlaps ==
    \A i \in Ops, j \in Ops :
        (i # j /\ opId[i] = opId[j] /\ opState[i] \in {"queued", "running"})
            => opState[j] \notin {"queued", "running"}

\* Completion callbacks of operation i that wait in the idle queue
PendingCompletions(i) ==
    {k \in 1..Len(idle_queue) :
        idle_queue[k].op = i /\ idle_queue[k].fn \in {"success", "error"}}

\* C9: every submitted operation gets exactly one completion callback on the
\* UI thread: never two, never the success callback for a failed operation or
\* the error handler for a succeeded one, and an operation that has succeeded
\* or failed eventually has its one callback run.
C9_ExactlyOneCompletion ==
    /\ [](\A i \in Ops :
            /\ Len(delivered[i]) + Cardinality(PendingCompletions(i)) <= 1
            /\ delivered[i] = <<"success">> => opState[i] = "succeeded"
            /\ delivered[i] = <<"error">> => opState[i] = "failed")
    /\ \A i \in Ops : (opState[i] = "succeeded") ~> (delivered[i] = <<"success">>)
    /\ \A i \in Ops : (opState[i] = "failed") ~> (delivered[i] = <<"error">>)

C9_Witness ==
    \E i \in Ops, j \in Ops :
        /\ delivered[i] = <<"success">>
        /\ delivered[j] = <<"error">>
        /\ idle_queue = <<>>

\* C10: the state of an operation changes only from none to queued (the
\* submission), from queued to running, and from running to succeeded or to
\* failed; succeeded and failed are never left.
C10_StateMachine ==
    [][\A i \in Ops :
          \/ opState'[i] = opState[i]
          \/ <<opState[i], opState'[i]>> \in
                {<<"none", "queued">>, <<"queued", "running">>,
                 <<"running", "succeeded">>, <<"running", "failed">>}]_vars

C10_Witness ==
    \E i \in Ops, j \in Ops :
        /\ opState[i] = "succeeded"
        /\ opState[j] = "failed"
        /\ wPc[i] = "exit"
        /\ wPc[j] = "exit"

(***************************************************************************)
(* The install procedure's names                                            *)
(***************************************************************************)
\* C8: while an install for channel c runs, its repository URL contains
\* "/network:/Meshtastic:/c/", its key path contains "network_Meshtastic_c.gpg",
\* every file it has written other than the temporary key file is the list
\* file or the key file of c, the list file it wrote names the repository of
\* c and the key file it wrote holds the key downloaded from that repository.
C8_ChannelNames ==
    insPc # "idle" =>
        /\ insChannel \in Channels
        /\ Contains(insUrl, <<"/", "network:", "/", "Meshtastic:", "/", insChannel, "/">>)
        /\ Contains(insGpgFile, <<"network_Meshtastic_", insChannel, ".gpg">>)
        /\ Contains(insListFile, <<":", insChannel, ".list">>)
        /\ \A p \in insWritten \ {temp_gpg_key} :
              /\ p \in {insListFile, insGpgFile}
              /\ \A d \in Channels \ {insChannel} : ~Contains(p, <<d>>)
        /\ \A f \in insFiles :
              /\ (f.path = insListFile /\ f.path \in insWritten /\ f.content # <<>>)
                    => Contains(f.content,
                                <<"/", "network:", "/", "Meshtastic:", "/", insChannel, "/">>)
              /\ (f.path = insGpgFile /\ f.path \in insWritten /\ f.content # <<>>)
                    => f.content = key_url(insUrl)

C8_Witness ==
    /\ insPc = "done"
    /\ insChannel = "daily"
    /\ insWritten \ {temp_gpg_key} = {list_file("daily"), gpg_file("daily")}
    /\ HasFile(insFiles, list_file("daily"))
    /\ HasFile(insFiles, gpg_file("daily"))
    /\ HasFile(insFiles, gpg_file("beta"))

C12_UpdateFailureGoesOn ==
    (insCmds # <<>> /\ insCmds[Len(insCmds)] = "apt_update") => insPc = "install"

(***************************************************************************)
(* The retrying executor and lock recovery, continued                       *)
(***************************************************************************)
\* C13: a call of safe_apt_command that has made its last attempt does not
\* end with an exception, whatever that attempt produced.
C13_LastAttemptNeverRaises ==
    Len(hist) = max_retries => sacPc # "raised"

(***************************************************************************)
(* Config-edit operations: backup, write and content                        *)
(***************************************************************************)
\* C14: an operation writes the boot config only after its own backup copy
\* has succeeded, and an operation whose backup copy failed has ended in
\* failure without writing.
C14_WriteOnlyAfterBackup ==
    /\ edWrote => edBackup = "ok"
    /\ edBackup \in {"nonzero", "raise"} => (edPc = "failed" /\ ~edWrote)

IsPrefix(p, c) == Len(p) <= Len(c) /\ SubSeq(c, 1, Len(p)) = p

\* C15: when the final write (tee) of a config-edit operation fails, the
\* operation ends in failure at that step and the boot config keeps the
\* content it had before the write step.
C15_FailedWriteReported ==
    [][(edPc = "write" /\ edTee' \in {"nonzero", "truncated", "raise"})
          => (edPc' = "failed" /\ bootConfig' = bootConfig)]_vars

\* C16: when a config-edit operation has ended, the boot-config content it
\* found when it started is a prefix of the content it leaves: text is only
\* appended.
C16_OnlyAppended ==
    edPc \in {"done", "failed"} => IsPrefix(edStart, bootConfig)

(***************************************************************************)
(* Status probes and failures                                               *)
(***************************************************************************)
\* A command of the last probe failed to launch or timed out, or the probe
\* could not read the boot config it reads
ProbeFailed ==
    \/ stProbe \in {"meshtasticd", "python_cli", "avahi", "hat_config", "boot", "service"}
       /\ (stIn.o1 = "raise" \/ stIn.o2 = "raise")
    \/ stProbe \in {"spi", "i2c", "gps"} /\ ~stReadable
    \/ stProbe = "hat" /\ stHat = "MeshAdv Mini" /\ ~stReadable

\* Another source of the same probe answered yes
OtherSourceSaysYes ==
    \/ /\ stProbe = "meshtasticd"
       /\ \/ stIn.exists
          \/ stIn.o1 = "ok" /\ stIn.out
          \/ stIn.o2 = "ok"
    \/ /\ stProbe = "python_cli"
       /\ stIn.o1 = "raise" /\ stIn.o2 # "raise" /\ stIn.out

C18_EnabledNeedsDevice ==
    /\ (stProbe = "spi" /\ stResult) => stDevs \cap {"spidev0.0", "spidev0.1"} # {}
    /\ (stProbe = "i2c" /\ stResult) => stDevs \cap I2cDevs # {}
    /\ (stProbe = "gps" /\ stResult) => stDevs \cap UartDevs # {}

(***************************************************************************)
(* Lock recovery: what it deletes and what it returns                       *)
(***************************************************************************)
\* C19: when lock recovery has returned, no lock file that its scan found
\* existing with no holding process is still lying there without a holder:
\* each has been deleted.
C19_StaleLocksDeleted ==
    cfPc = "done" => \A f \in staleSeen : lockState[f] # "stale"

\* C20: lock recovery returns true exactly when the call took a corrective
\* action (ran dpkg --configure, killed processes or removed a lock file),
\* and false when it took none.
C20_TrueIffActed ==
    cfPc = "done" => (cfRet = "true" <=> cfActed)

(***************************************************************************)
(* Worker threads: how many run at once                                     *)
(***************************************************************************)
\* C21: at most max_workers tasks execute at any moment, and a task that is
\* waiting in the queue starts only in a step where fewer than max_workers
\* tasks are running.
C21_AtMostMaxWorkers ==
    Cardinality(PoolRunning) <= max_workers

(***************************************************************************)
(* Log messages: delivery and order                                         *)
(***************************************************************************)
\* How often message n of worker w is in a sequence of messages
Times(q, w, n) == Cardinality({i \in 1..Len(q) : q[i] = [w |-> w, n |-> n]})

\* C22: every message a worker emits is appended to the output exactly once
\* (never twice, and eventually once), and two messages of one worker are
\* appended in the order they were emitted, however the workers and the
\* drain interleave.
C22_ExactlyOnceInOrder ==
    /\ [](\A w \in LogWorkers, n \in 1..MaxMsgs : Times(output, w, n) <= 1)
    /\ [](\A i, j \in 1..Len(output) :
             (i < j /\ output[i].w = output[j].w) => output[i].n < output[j].n)
    /\ \A w \in LogWorkers, n \in 1..MaxMsgs :
          (emitted[w] >= n) ~> (Times(output, w, n) = 1)

C22_Witness ==
    /\ Len(output) = MaxLogWorkers * MaxMsgs
    /\ output[1] = [w |-> 1, n |-> 1]
    /\ output[2].w = 2
    /\ output[3] = [w |-> 1, n |-> 2]

(***************************************************************************)
(* Steps outside the retrying executor                                      *)
(***************************************************************************)
\* The steps of the running install procedure that run apt install of the
\* package
InstallAttempts ==
    {i \in 1..Len(insCmds) : insCmds[i] \in {"apt_install", "apt_install_interactive"}}

\* C23: within one run of the install procedure the package install is
\* attempted at most once: no step is tried again after it failed.
C23_InstallAttemptedOnce == Cardinality(InstallAttempts) <= 1

(***************************************************************************)
(* The command runner: what raises                                          *)
(***************************************************************************)
\* C24: run_command raises only when the executable could not be launched:
\* a command that exits non-zero gives a returned result with the exit code,
\* and a command that runs past its timeout gives a returned result marked
\* as timed out.
C24_RaisesOnlyOnLaunchFailure ==
    /\ runResult.kind = "raised" => runArgs.launch # "ok"
    /\ (runResult.kind # "none" /\ runArgs.launch = "ok")
          => /\ runResult.kind = "returned"
             /\ runResult.timed_out
                   <=> runArgs.duration > (IF runArgs.timeout = 0 THEN DEFAULT_TIMEOUT
                                                                  ELSE runArgs.timeout)

(***************************************************************************)
(* The retrying executor: kills, retries and termination                    *)
(***************************************************************************)
\* C25: whenever an attempt that is not the last one timed out and the
\* command of a later attempt has been started, killall was run after that
\* timeout.
C25_KillBeforeRetry ==
    \A i \in 1..Len(hist) :
        (hist[i].kind = "timeout" /\ i < Len(hist)) => i \in kills

C25_Witness ==
    /\ Len(hist) = 2
    /\ hist[1].kind = "timeout"
    /\ kills = {1}

\* C26: a completed command is followed by another attempt only when it
\* exited non-zero with a lock signature in stderr: after exit code 0, and
\* after a non-zero exit without the signature, no further attempt is made.
C26_RetryOnlyOnLockFailure ==
    \A i \in 1..Len(hist) :
        (hist[i].kind = "completed" /\ (hist[i].rc = 0 \/ ~hist[i].lockSig))
            => i = Len(hist)

C28_NoCommandOnUiThread ==
    \A i \in 1..Len(uiTrace) :
        uiTrace[i].thread = "ui" => uiTrace[i].kind # "command"

FeatureHeader(op) == IF op = "spi" THEN "# SPI Configuration" ELSE "# GPS/UART Configuration"

\* What the operation appended to the content it read
Appended == SubSeq(edContent, Len(edRead) + 1, Len(edContent))

Occurs(S, c) == Cardinality({i \in 1..Len(c) : c[i] \in S})

EditComputed == edOp \in {"spi", "gps"} /\ edPc \in {"write", "serial", "done"}

\* C30: one run of enable-SPI or enable-GPS/UART appends the comment header
\* of the feature exactly once when it appends at least one of its
\* directives and not at all when it appends none, whichever of the
\* directives the content read already holds.
C30_HeaderOncePerRun ==
    EditComputed =>
       /\ IsPrefix(edRead, edContent)
       /\ Occurs({FeatureHeader(edOp)}, Appended)
             = (IF Occurs(Directives(edOp, TRUE), Appended) >= 1 THEN 1 ELSE 0)

\* Only the second directive was missing: the header comes with it
C30_Witness ==
    /\ EditComputed
    /\ edOp = "spi"
    /\ In("dtparam=spi=on", edRead)
    /\ ~In("dtoverlay=spi0-0cs", edRead)
    /\ Occurs({"dtoverlay=spi0-0cs"}, Appended) = 1
    /\ Occurs({FeatureHeader(edOp)}, Appended) = 1

(***************************************************************************)
(* The retrying executor: recovery between attempts, errors of the          *)
(* recovery, and the value returned                                         *)
(***************************************************************************)
\* C34: every attempt after the first is preceded by exactly one
\* lock-recovery call followed by the delay, whatever made the attempt
\* before it fail, and the first attempt by none: when the command is about
\* to run for the (n+1)-th time recovery has been called n times, a call
\* that made n attempts has called it n-1 times, an attempt after the first
\* starts from the delay and the delay from a recovery that has returned.
C34_OneRecoveryPerRetry ==
    /\ [](sacPc = "run" => recoveryCalls = Len(hist))
    /\ [](sacPc \in {"returned", "raised"} => recoveryCalls = Len(hist) - 1)
    /\ [][(sacPc' = "run" /\ sacPc # "run")
             => (IF attempt = 0 THEN sacPc = "loop" ELSE sacPc = "sleep")]_vars
    /\ [][(sacPc' = "sleep" /\ sacPc # "sleep")
             => (sacPc = "recovering" /\ cfPc = "done")]_vars

\* Three attempts, the first ended by a timeout, the second by a launch
\* error: two recoveries
C34_Witness ==
    /\ sacPc = "returned"
    /\ Len(hist) = 3
    /\ hist[1].kind = "timeout"
    /\ hist[2].kind = "error"
    /\ recoveryCalls = 2

\* C39: check_and_fix_apt_locks never lets an error of one of its commands
\* out: the call always ends with a returned value, True or False, so the
\* retrying executor that called it goes on to the delay and the next
\* attempt.
C39_RecoveryNeverRaises ==
    /\ cfPc # "raised"
    /\ cfPc = "done" => cfRet \in {"true", "false"}
    /\ sacPc = "sleep" => Len(hist) >= 1

\* The recovery called before a retry ended by returning False
C39_Witness ==
    /\ sacPc = "recovering"
    /\ cfPc = "done"
    /\ cfRet = "false"
    /\ Len(hist) >= 1

\* C40: safe_apt_command never returns None: a call that returns returns
\* the result of its last attempt.
C40_NeverReturnsNone ==
    /\ sacRet.kind # "None"
    /\ sacPc = "returned" => (sacRet.kind = "result" /\ sacRet.attempt = Len(hist))

\* The last attempt still met the lock: its result is returned
C40_Witness ==
    /\ sacPc = "returned"
    /\ sacRet.kind = "result"
    /\ sacRet.attempt = max_retries
    /\ sacRet.lockSig

(***************************************************************************)
(* Config edits: what the backups hold, what the file holds afterwards      *)
(***************************************************************************)
\* C35: for every write of the boot config so far there is still a backup
\* file holding the content the boot config had just before that write,
\* also when two operations take their backups within one clock second.
C35_BackupOfEveryWrite ==
    \A c \in edPreWrites : \E b \in backups : b.content = c

\* The directive-present condition of the status check of an operation:
\* the check with every device file there and the boot config readable
ConfigEnabled(op, c, pi5) ==
    CASE op = "spi" -> check_spi_status(AllDevs, TRUE, c)
      [] op = "i2c" -> check_i2c_status(AllDevs, TRUE, c)
      [] op = "gps" -> check_gps_uart_status(TRUE, c, pi5)
      [] OTHER      -> check_hat_specific_status(TRUE, c, "MeshAdv Mini")

\* C36: when a config-edit operation has completed without error the boot
\* config satisfies the directive-present condition of the matching status
\* check, the HAT operation included.
C36_DoneMeansConfigEnabled ==
    edPc = "done" => ConfigEnabled(edOp, bootConfig, isPi5)

\* C37: in enable-SPI and enable-I2C the backup just taken holds the content
\* the boot config had when the operation started.
C37_BackupHoldsStartContent ==
    (edOp \in {"spi", "i2c"} /\ edPc = "read" /\ edBackup = "ok")
       => \E b \in backups : b.ts = now /\ b.content = edStart

(***************************************************************************)
(* Config edits running at the same time                                    *)
(***************************************************************************)
BothDone == \A w \in Workers : ccPc[w] = "done"

\* Worker w appended the directive of marker d to what it had read
AppendedBy(w, d) ==
    /\ d \in Directives(ccOp[w], ccPi5)
    /\ ~In(d, ccRead[w])
    /\ In(d, ccContent[w])

\* C31: each operation rewrites the whole file from its own read, so two
\* operations for different features that overlap can both complete while
\* the file lacks a directive one of them appended (C31_Witness is such a
\* state).  What always holds: a write that succeeds puts the writer's
\* content, computed from its own earlier read, at the head of the file,
\* whatever was written since; and when both workers have completed with
\* every command succeeding, a directive one of them appended is missing
\* only if the other never read it.
C31_LostUpdate ==
    /\ [][\A w \in Workers :
             (ccPc[w] = "writing" /\ ccPc'[w] # "writing" /\ ccClean'[w])
                => IsPrefix(ccContent[w], ccFile')]_vars
    /\ [](\A w, v \in Workers : \A d \in Directives(ccOp[w], ccPi5) :
             (w # v /\ BothDone /\ ccClean[w] /\ ccClean[v]
                /\ AppendedBy(w, d) /\ ~In(d, ccFile))
                => ~In(d, ccRead[v]))

\* enable-SPI and enable-I2C overlapped, every command succeeded, both
\* completed, and the overlay enable-SPI appended is not in the file
C31_Witness ==
    /\ ccOp[1] = "spi" /\ ccOp[2] = "i2c"
    /\ BothDone
    /\ ccClean[1] /\ ccClean[2]
    /\ AppendedBy(1, "dtoverlay=spi0-0cs")
    /\ ~In("dtoverlay=spi0-0cs", ccFile)

\* C38: when two runs of the same operation overlapped and both have
\* completed without error, the boot config holds each marker of the
\* operation's directives exactly once.
C38_SameOpTwiceMarkersOnce ==
    (BothDone /\ ccOp[1] = ccOp[2])
       => \A d \in Directives(ccOp[1], ccPi5) : Count(d, ccFile) = 1

(***************************************************************************)
(* Operations end                                                           *)
(***************************************************************************)
\* C32: with the worker scheduled fairly, every submitted operation
\* eventually reaches Succeeded or Failed, because every command it starts
\* exits or is ended by a timeout.
C32_EveryOperationEnds ==
    (wtPc = "running") ~> (wtPc \in {"succeeded", "failed"})

(***************************************************************************)
(* The HAT config                                                           *)
(***************************************************************************)
\* C33: starting from a config.d with at most one YAML file, config.d holds
\* at most one YAML file after any sequence of HAT-config selections,
\* whatever the user answers and however the rm and cp commands end.
C33_AtMostOneYaml == Cardinality(hcConfigD) <= 1

====
